---- MODULE Spec2Model ----
(***************************************************************************)
(* goccc: the log walk (parseLogs), the per-file line scan (parseFile),    *)
(* the request-id dedup map and the fold of the canonical records into     *)
(* the by-model, by-date, by-project and by-branch views.                  *)
(*                                                                         *)
(* Strings the program inspects character by character (model ids,         *)
(* project slugs, the project filter) are sequences of one-character       *)
(* strings.  Instants are seconds on the absolute time line; the local     *)
(* zone is LocalOffset seconds east of UTC and has no DST change inside    *)
(* the modelled window.  Money is an exact integer count of 1e-9 dollars   *)
(* (tokens times milli-dollars per million tokens); float64 rounding is    *)
(* not represented.                                                        *)
(***************************************************************************)
EXTENDS Integers, Sequences, FiniteSets, TLC

VARIABLES
    pc,           \* position of the run: start, walk, scan, agg, done, failed
    days,         \* parseLogs argument: day cutoff, 0 = unbounded
    projectFilter,\* parseLogs argument: project substring filter, <<>> = none
    root,         \* what os.Stat finds at <baseDir>/projects: "dir", "file" or "missing"
    call,         \* the last call of a pure function or method: its arguments and its return
    warnings,     \* the "Warning: could not read" lines written to stderr so far
    dir,          \* index in Projects of the project directory the walk is in (0: none yet)
    pruned,       \* the current project directory was answered with fs.SkipDir
    lastName,     \* index in FileNames of the last file visited in the current directory
    file,         \* the file parseFile is scanning: [project, base]
    last,         \* the line scanner.Bytes() returned last in the open file
    rawCount,     \* parseFile's rawCount
    parseErrs,    \* parseFile's parseErrs
    nLines,       \* lines scanned so far in the whole walk (bounded by MaxLines)
    deduped,      \* the dedup map: request id -> dedupRecord
    totalFiles,   \* parseLogs' totalFiles
    parseErrors,  \* parseLogs' parseErrors
    result,       \* the ParseResult being built; its views are empty until pc = "agg"
    pending,      \* ids of deduped the fold loop has not visited yet
    accepted      \* history: the accepted events in processing order, <<[id, rec]>>

vars == <<pc, days, projectFilter, root, call, warnings, dir, pruned, lastName, file, last, rawCount, parseErrs,
          nLines, deduped, totalFiles, parseErrors, result, pending, accepted>>

----------------------------------------------------------------------------
(* Bounds of the model. *)

MaxDays == 2      \* largest day cutoff tried
MaxLines == 3     \* lines scanned in one walk, over all files
MaxFiles == 2     \* .jsonl files handed to parseFile in one walk
Ktok == 1000      \* tokens per counter in the direct calls of the pricing functions

----------------------------------------------------------------------------
(* Time. *)

SecondsPerDay == 24 * 60 * 60
LocalOffset == 2 * 60 * 60
\* Local calendar day 0 starts at absolute instant -LocalOffset.
Today == MaxDays + 1

\* time.Date(y, m, d, 0, 0, 0, 0, loc): the instant of local midnight of day d.
LocalMidnight(d) == d * SecondsPerDay - LocalOffset

\* t.Local().Format("2006-01-02"): the local calendar day of an instant.
LocalDate(t) == (t + LocalOffset) \div SecondsPerDay

\* The instant "now": some second of today (local).
Now == LocalMidnight(Today) + 15 * 60 * 60

\* parseLogs' cutoff for days > 0: local midnight of today, moved back days-1 days.
CutoffNDaysBack(n) == LocalMidnight(LocalDate(Now) - n)
Cutoff(n) == LocalMidnight(LocalDate(Now) - (n - 1))

----------------------------------------------------------------------------
(* Strings as character sequences. *)

\* strings.HasPrefix(s, p)
HasPrefix(s, p) == Len(p) <= Len(s) /\ SubSeq(s, 1, Len(p)) = p

\* strings.Contains(s, sub)
Contains(s, sub) ==
    \E i \in 0..(Len(s) - Len(sub)) : SubSeq(s, i + 1, i + Len(sub)) = sub

Upper == <<"A", "B", "C", "D", "E", "F", "G", "H", "I", "J", "K", "L", "M",
           "N", "O", "P", "Q", "R", "S", "T", "U", "V", "W", "X", "Y", "Z">>
Lower == <<"a", "b", "c", "d", "e", "f", "g", "h", "i", "j", "k", "l", "m",
           "n", "o", "p", "q", "r", "s", "t", "u", "v", "w", "x", "y", "z">>

LowerChar(c) ==
    IF \E k \in 1..Len(Upper) : Upper[k] = c
    THEN Lower[CHOOSE k \in 1..Len(Upper) : Upper[k] = c]
    ELSE c

\* strings.ToLower(s)
ToLower(s) == [i \in 1..Len(s) |-> LowerChar(s[i])]

Claude == <<"c", "l", "a", "u", "d", "e", "-">>
OpusFam == Claude \o <<"o", "p", "u", "s", "-">>
SonnetFam == Claude \o <<"s", "o", "n", "n", "e", "t", "-">>
HaikuFam == Claude \o <<"h", "a", "i", "k", "u", "-">>

Opus46 == OpusFam \o <<"4", "-", "6">>
Opus45 == OpusFam \o <<"4", "-", "5">>
Opus41 == OpusFam \o <<"4", "-", "1">>
Opus4 == OpusFam \o <<"4">>
Sonnet46 == SonnetFam \o <<"4", "-", "6">>
Sonnet45 == SonnetFam \o <<"4", "-", "5">>
Sonnet4 == SonnetFam \o <<"4">>
Sonnet3 == SonnetFam \o <<"3">>
Haiku45 == HaikuFam \o <<"4", "-", "5">>
Haiku35 == HaikuFam \o <<"3", "-", "5">>
Haiku3 == HaikuFam \o <<"3">>

Opus45Dated == Opus45 \o <<"-", "2", "0", "2", "5", "1", "1", "0", "1">>
Opus41Dated == Opus41 \o <<"-", "2", "0", "2", "5", "0", "4", "1", "4">>
Sonnet45Dated == Sonnet45 \o <<"-", "2", "0", "2", "5", "0", "9", "2", "9">>
Sonnet4Dated == Sonnet4 \o <<"-", "2", "0", "2", "5", "0", "5", "1", "4">>
Haiku45Dated == Haiku45 \o <<"-", "2", "0", "2", "5", "1", "0", "0", "1">>
Haiku35Dated == Haiku35 \o <<"-", "2", "0", "2", "4", "1", "0", "2", "2">>

\* The model id of rate-limit and error stand-ins.
Synthetic == <<"<", "s", "y", "n", "t", "h", "e", "t", "i", "c", ">">>

----------------------------------------------------------------------------
(* Pricing (pricing.go).  Rates are milli-dollars per million tokens. *)

Rate(in, out) == [Input |-> in, Output |-> out]

pricingTable ==
    <<[Key |-> Opus46,        Price |-> Rate(5000, 25000)],
      [Key |-> Opus45Dated,   Price |-> Rate(5000, 25000)],
      [Key |-> Opus41Dated,   Price |-> Rate(15000, 75000)],
      [Key |-> Sonnet46,      Price |-> Rate(3000, 15000)],
      [Key |-> Sonnet45Dated, Price |-> Rate(3000, 15000)],
      [Key |-> Sonnet4Dated,  Price |-> Rate(3000, 15000)],
      [Key |-> Haiku45Dated,  Price |-> Rate(1000, 5000)],
      [Key |-> Haiku35Dated,  Price |-> Rate(800, 4000)]>>

HasPrice(model) == \E k \in 1..Len(pricingTable) : pricingTable[k].Key = model

\* pricingTable[model]; the zero ModelPricing for a missing key.
PriceOf(model) ==
    IF HasPrice(model)
    THEN pricingTable[CHOOSE k \in 1..Len(pricingTable) : pricingTable[k].Key = model].Price
    ELSE Rate(0, 0)

\* The table as declared, before init() sorts it.
familyPrefixesDeclared ==
    <<[Prefix |-> Opus46,   Key |-> Opus46],
      [Prefix |-> Opus45,   Key |-> Opus45Dated],
      [Prefix |-> Opus41,   Key |-> Opus41Dated],
      [Prefix |-> Opus4,    Key |-> Opus41Dated],
      [Prefix |-> Sonnet46, Key |-> Sonnet46],
      [Prefix |-> Sonnet45, Key |-> Sonnet45Dated],
      [Prefix |-> Sonnet4,  Key |-> Sonnet4Dated],
      [Prefix |-> Sonnet3,  Key |-> Sonnet45Dated],
      [Prefix |-> Haiku45,  Key |-> Haiku45Dated],
      [Prefix |-> Haiku35,  Key |-> Haiku35Dated],
      [Prefix |-> Haiku3,   Key |-> Haiku35Dated]>>

\* s with x inserted before the first entry whose prefix is shorter than x's.
RECURSIVE InsertByLength(_, _)
InsertByLength(s, x) ==
    IF s = <<>> THEN <<x>>
    ELSE IF Len(Head(s).Prefix) < Len(x.Prefix) THEN <<x>> \o s
    ELSE <<Head(s)>> \o InsertByLength(Tail(s), x)

RECURSIVE SortLongestFirst(_)
SortLongestFirst(s) ==
    IF s = <<>> THEN <<>>
    ELSE InsertByLength(SortLongestFirst(SubSeq(s, 1, Len(s) - 1)), s[Len(s)])

\* init(): the table sorted by descending prefix length.  Entries of equal
\* length keep their declared order here; sort.Slice promises no order among them.
familyPrefixesShortestFirst ==
    LET s == SortLongestFirst(familyPrefixesDeclared)
    IN  [i \in 1..Len(s) |-> s[Len(s) + 1 - i]]
familyPrefixes == SortLongestFirst(familyPrefixesDeclared)

defaultPricing == PriceOf(Sonnet46)

\* resolvePricing with the prefix table as init() left it in table.
resolvePricingIn(table, model) ==
    IF HasPrice(model) THEN PriceOf(model)
    ELSE IF \E k \in 1..Len(table) : HasPrefix(model, table[k].Prefix)
    THEN LET first == CHOOSE k \in 1..Len(table) :
                          /\ HasPrefix(model, table[k].Prefix)
                          /\ \A j \in 1..(k - 1) : ~HasPrefix(model, table[j].Prefix)
         IN  PriceOf(table[first].Key)
    ELSE defaultPricing

resolvePricing(model) == resolvePricingIn(familyPrefixes, model)

\* ModelPricing.CacheWrite5m / CacheWrite1h / CacheRead: Input * 1.25, * 2.0, * 0.1
CacheWrite5mRate(p) == (p.Input * 125) \div 100
CacheWrite1hRate(p) == p.Input * 2
CacheReadRate(p) == p.Input \div 10

\* A nil *CacheCreation is [present |-> FALSE].
NoCacheCreation == [present |-> FALSE, Ephemeral5mInputTokens |-> 0, Ephemeral1hInputTokens |-> 0]
Breakdown(c5m, c1h) ==
    [present |-> TRUE, Ephemeral5mInputTokens |-> c5m, Ephemeral1hInputTokens |-> c1h]

MkUsage(in, out, read, flat, cc) ==
    [InputTokens |-> in, OutputTokens |-> out, CacheReadInputTokens |-> read,
     CacheCreationInputTokens |-> flat, CacheCreation |-> cc]

\* Usage.CacheWriteTokens: <<cache5m, cache1h>>
CacheWriteTokensNoFallback(u) ==
    IF u.CacheCreation.present
    THEN <<u.CacheCreation.Ephemeral5mInputTokens, u.CacheCreation.Ephemeral1hInputTokens>>
    ELSE <<u.CacheCreationInputTokens, 0>>
CacheWriteTokens(u) ==
    LET c5 == IF u.CacheCreation.present THEN u.CacheCreation.Ephemeral5mInputTokens ELSE 0
        c1 == IF u.CacheCreation.present THEN u.CacheCreation.Ephemeral1hInputTokens ELSE 0
    IN  IF c5 = 0 /\ c1 = 0 /\ u.CacheCreationInputTokens > 0
        THEN <<u.CacheCreationInputTokens, c1>>
        ELSE <<c5, c1>>

\* calcCost, in 1e-9 dollars: tokens/1e6 * rate, with rate in milli-dollars.
calcCostOneCacheRate(model, usage) ==
    LET p == resolvePricing(model)
        cw == CacheWriteTokens(usage)
    IN  usage.InputTokens * p.Input
        + usage.OutputTokens * p.Output
        + (cw[1] + cw[2]) * CacheWrite5mRate(p)
        + usage.CacheReadInputTokens * CacheReadRate(p)
calcCost(model, usage) ==
    LET p == resolvePricing(model)
        cw == CacheWriteTokens(usage)
    IN  usage.InputTokens * p.Input
        + usage.OutputTokens * p.Output
        + cw[1] * CacheWrite5mRate(p)
        + cw[2] * CacheWrite1hRate(p)
        + usage.CacheReadInputTokens * CacheReadRate(p)

----------------------------------------------------------------------------
(* Log lines. *)

\* The timestamp field: absent or "", text time.Parse rejects, or an RFC 3339 instant.
TsEmpty == [kind |-> "empty", instant |-> 0]
TsInvalid == [kind |-> "invalid", instant |-> 0]
TsAt(t) == [kind |-> "rfc3339", instant |-> t]

\* For each cutoff the model tries: the cutoff instant itself and one second before it.
BoundaryInstants ==
    UNION {{LocalMidnight(Today - k), LocalMidnight(Today - k) - 1} : k \in 0..(MaxDays - 1)}

Timestamps == {TsEmpty, TsInvalid} \cup {TsAt(t) : t \in BoundaryInstants}

\* Local dates as Format("2006-01-02") prints them, from local day 0 on.
Calendar == <<"2026-02-26", "2026-02-27", "2026-02-28", "2026-03-01", "2026-03-02",
              "2026-03-03", "2026-03-04", "2026-03-05", "2026-03-06", "2026-03-07">>
FormatDate(d) == Calendar[d + 1]

U1 == MkUsage(100, 10, 500, 200, NoCacheCreation)
U2 == MkUsage(100, 50, 0, 300, Breakdown(200, 100))

\* One line of a file.  length0: the line is empty.  disc: how the text
\* "type":"assistant" occurs in it (none, compact, spaced).  valid: json.Unmarshal
\* accepts it; the other fields are the jsonRecord it decodes to.
Line(length0, disc, valid, type, id, ts, branch, model, hasUsage, usage) ==
    [length0 |-> length0, disc |-> disc, valid |-> valid, Type |-> type,
     RequestID |-> id, Timestamp |-> ts, GitBranch |-> branch, Model |-> model,
     HasUsage |-> hasUsage, Usage |-> usage]

Assistant(id, ts, branch, model, usage) ==
    Line(FALSE, "compact", TRUE, "assistant", id, ts, branch, model, TRUE, usage)

EmptyLine == Line(TRUE, "none", FALSE, "", "", TsEmpty, "", <<>>, FALSE, U1)
UserLine == Line(FALSE, "none", TRUE, "user", "", TsAt(Now), "", <<>>, FALSE, U1)
GarbledLine == Line(FALSE, "compact", FALSE, "", "", TsEmpty, "", <<>>, FALSE, U1)
NoUsageLine ==
    Line(FALSE, "compact", TRUE, "assistant", "req_1", TsAt(Now), "", Opus46, FALSE, U1)
NoModelLine ==
    Line(FALSE, "compact", TRUE, "assistant", "req_1", TsAt(Now), "", <<>>, TRUE, U1)
SyntheticLine == Assistant("req_1", TsAt(Now), "", Synthetic, U2)
\* A tool-result line: its own type is "user", the assistant text sits in nested content.
NestedLine ==
    Line(FALSE, "compact", TRUE, "user", "req_2", TsAt(Now), "", Sonnet46, TRUE, U2)
SpacedLine ==
    Line(FALSE, "spaced", TRUE, "assistant", "req_2", TsAt(Now), "", Sonnet46, TRUE, U2)

\* A streaming update of one request.
StreamLines == {Assistant("req_1", TsAt(Now), "", Opus46, U2)}
\* A request without an id, on a labelled branch.
OtherLines == {Assistant("", TsAt(Now), "main", Opus46, U1)}
\* Another update of the same request, under another model, with other
\* usage and without a date.
DatedLines == {Assistant("req_1", TsEmpty, "", Sonnet46, U1)}
\* Lines that yield no event.
RejectedLines ==
    {EmptyLine, UserLine, GarbledLine, NoUsageLine, NoModelLine, SyntheticLine}

\* The lines of a corpus read without a cutoff: ids, models, usage, branches
\* and dates vary.
Lines ==
    RejectedLines \cup {NestedLine, SpacedLine}
    \cup StreamLines \cup OtherLines \cup DatedLines

\* The lines of a corpus read under a cutoff: the timestamp varies.
TimeLines == {Assistant("req_1", ts, "", Opus46, U1) : ts \in Timestamps}
CutoffLines ==
    {GarbledLine, SyntheticLine, Assistant("req_2", TsAt(Now), "", Sonnet46, U2)}
    \cup TimeLines

----------------------------------------------------------------------------
(* parseFile (parser.go), one line at a time. *)

\* The prefilter: the line holds "type":"assistant" in one of the two spellings.
Prefilter(line) == line.disc = "compact" \/ line.disc = "spaced"

\* What parseFile does with one line: skip it (accept = FALSE) or turn it into
\* an event with date `date`; errs is what it adds to parseErrs.
Outcome(accept, errs, date) == [accept |-> accept, errs |-> errs, date |-> date]

\* json.Unmarshal fails: the line counts as a parse error and is passed over.
MalformedSilent == Outcome(FALSE, 0, "unknown")
MalformedOutcome == Outcome(FALSE, 1, "unknown")

\* The decoded record carries nothing to bill: no usage payload, no model id,
\* or the model id of the synthetic stand-ins.
UnbillableNoSentinel(line) == ~line.HasUsage \/ line.Model = <<>>
Unbillable(line) == ~line.HasUsage \/ line.Model = <<>> \/ line.Model = Synthetic

\* The timestamp of a billable record: its date, or the reasons to drop it.
TimestampOutcomeCountsEmpty(ts, cutoff, hasCutoff) ==
    IF ts.kind = "rfc3339"
    THEN IF hasCutoff /\ ts.instant < cutoff
         THEN Outcome(FALSE, 0, "unknown")
         ELSE Outcome(TRUE, 0, FormatDate(LocalDate(ts.instant)))
    ELSE IF hasCutoff /\ ts.kind = "empty" THEN Outcome(FALSE, 0, "unknown")
    ELSE Outcome(TRUE, 1, "unknown")
TimestampOutcome(ts, cutoff, hasCutoff) ==
    IF ts.kind = "rfc3339"
    THEN IF hasCutoff /\ ts.instant < cutoff
         THEN Outcome(FALSE, 0, "unknown")
         ELSE Outcome(TRUE, 0, FormatDate(LocalDate(ts.instant)))
    ELSE IF ts.kind = "invalid" THEN Outcome(TRUE, 1, "unknown")
    ELSE IF hasCutoff THEN Outcome(FALSE, 0, "unknown")
    ELSE Outcome(TRUE, 0, "unknown")

LineOutcome(line, cutoff, hasCutoff) ==
    IF line.length0 THEN Outcome(FALSE, 0, "unknown")
    ELSE IF ~Prefilter(line) THEN Outcome(FALSE, 0, "unknown")
    ELSE IF ~line.valid THEN MalformedOutcome
    ELSE IF Unbillable(line) THEN Outcome(FALSE, 0, "unknown")
    ELSE TimestampOutcome(line.Timestamp, cutoff, hasCutoff)

\* The request id of an accepted event; raw is rawCount after its increment.
RequestIdOf(line, base, raw) ==
    IF line.RequestID = "" THEN "_noid_" \o base \o "_" \o ToString(raw)
    ELSE line.RequestID

\* The dedupRecord built from an accepted line.
MakeRecord(line, projectSlug, date) ==
    [Model |-> line.Model, Project |-> projectSlug, Date |-> date,
     Usage |-> line.Usage, Branch |-> line.GitBranch]

\* The key an event is stored under in the one map parseLogs allocates for
\* the whole walk: its request id, whatever project the file belongs to.
DedupKeyPerProject(projectSlug, id) == ToString(projectSlug) \o "/" \o id
DedupKey(projectSlug, id) == id

\* deduped[id] = rec
PutMergeUsage(m, id, rec) ==
    [k \in DOMAIN m \cup {id} |->
        IF k # id THEN m[k]
        ELSE IF k \in DOMAIN m THEN [m[k] EXCEPT !.Usage = rec.Usage]
        ELSE rec]
Put(m, id, rec) == [k \in DOMAIN m \cup {id} |-> IF k = id THEN rec ELSE m[k]]

\* No file is open: parseFile is not running and its locals do not exist.
NoFile == [project |-> <<>>, base |-> ""]
\* No line has been read from the open file.
NoLine == Line(TRUE, "unread", FALSE, "", "", TsEmpty, "", <<>>, FALSE, U1)

\* The loop body of parseFile for one line drawn from L.
ScanLine(L) ==
    /\ pc = "scan"
    /\ nLines < MaxLines
    /\ \E line \in L :
        LET o == LineOutcome(line, Cutoff(days), days > 0)
            raw == rawCount + 1
            id == RequestIdOf(line, file.base, raw)
            rec == MakeRecord(line, file.project, o.date)
        IN  /\ last' = line
            /\ parseErrs' = parseErrs + o.errs
            /\ IF o.accept
               THEN /\ rawCount' = raw
                    /\ deduped' = Put(deduped, DedupKey(file.project, id), rec)
                    /\ accepted' = Append(accepted, [id |-> id, rec |-> rec])
               ELSE UNCHANGED <<rawCount, deduped, accepted>>
    /\ nLines' = nLines + 1
    /\ UNCHANGED <<pc, days, projectFilter, root, call, warnings, dir, pruned, lastName, file,
                   totalFiles, parseErrors, result, pending>>

\* scanner.Scan() returns false with scanner.Err() = nil: parseFile returns
\* (rawCount, parseErrs, nil) and the callback adds parseErrs to parseErrors.
EndFile ==
    /\ pc = "scan"
    /\ parseErrors' = parseErrors + parseErrs
    /\ pc' = "walk"
    /\ file' = NoFile
    /\ last' = NoLine
    /\ rawCount' = 0
    /\ parseErrs' = 0
    /\ UNCHANGED <<days, projectFilter, root, call, warnings, dir, pruned, lastName, nLines, deduped,
                   totalFiles, result, pending, accepted>>

\* scanner.Scan() returns false with scanner.Err() # nil (a read error, a line
\* over the buffer limit): the callback warns and returns without adding parseErrs.
ScanErrorAborts ==
    /\ pc = "scan"
    /\ pc' = "failed"
    /\ UNCHANGED <<days, projectFilter, root, call, warnings, dir, pruned, lastName, file, last,
                   rawCount, parseErrs, nLines, deduped, totalFiles, parseErrors, result,
                   pending, accepted>>
ScanError ==
    /\ pc = "scan"
    /\ pc' = "walk"
    /\ file' = NoFile
    /\ last' = NoLine
    /\ rawCount' = 0
    /\ parseErrs' = 0
    /\ warnings' = warnings + 1
    /\ UNCHANGED <<days, projectFilter, root, call, dir, pruned, lastName, nLines, deduped,
                   totalFiles, parseErrors, result, pending, accepted>>

----------------------------------------------------------------------------
(* parseLogs (parser.go): the walk. *)

\* Project directories under projects/ and file names inside one, in the
\* lexical order filepath.WalkDir visits them.
ProjectApp == <<"A", "p", "p">>
ProjectLib == <<"l", "i", "b">>
Projects == <<ProjectApp, ProjectLib>>
FileNames == <<"a.jsonl", "session.jsonl">>

NoFilter == <<>>
Filters == {NoFilter, <<"a", "P">>}

\* Last-modified times of files: before every cutoff tried, and now.
ModTimes == {LocalMidnight(Today - MaxDays) - 1, Now}

\* The callback's answer for a project directory: fs.SkipDir or nil.
SkipsDir(filter, slug) ==
    filter # <<>> /\ ~Contains(ToLower(slug), ToLower(filter))

\* The mtime test: the file is passed over when a cutoff is active,
\* d.Info() succeeds and the file was last modified before the cutoff.
SkipsFile(hasCutoff, infoOk, modTime, cutoff) ==
    hasCutoff /\ infoOk /\ modTime < cutoff

\* What can be at <baseDir>/projects.
Roots == {"dir", "file", "missing"}

\* No pure function has been called.
NoCall == [op |-> "none"]

\* os.Stat(projectsDir) fails or finds no directory: parseLogs returns
\* (nil, error); otherwise the walk starts.
StartNoStat ==
    /\ pc = "start"
    /\ pc' = "walk"
    /\ UNCHANGED <<days, projectFilter, root, call, warnings, dir, pruned, lastName, file, last,
                   rawCount, parseErrs, nLines, deduped, totalFiles, parseErrors, result,
                   pending, accepted>>
Start ==
    /\ pc = "start"
    /\ pc' = IF root = "dir" THEN "walk" ELSE "failed"
    /\ UNCHANGED <<days, projectFilter, root, call, warnings, dir, pruned, lastName, file, last, rawCount, parseErrs,
                   nLines, deduped, totalFiles, parseErrors, result, pending, accepted>>

\* The callback on the next project directory.
EnterDir ==
    /\ pc = "walk"
    /\ \E p \in (dir + 1)..Len(Projects) :
        /\ dir' = p
        /\ pruned' = SkipsDir(projectFilter, Projects[p])
    /\ lastName' = 0
    /\ UNCHANGED <<pc, days, projectFilter, root, call, warnings, file, last, rawCount, parseErrs, nLines, deduped,
                   totalFiles, parseErrors, result, pending, accepted>>

\* The callback on the next file of the current project directory: not a
\* .jsonl file, too old, unopenable, or opened and handed to the line scan.
VisitFile ==
    /\ pc = "walk"
    /\ dir \in 1..Len(Projects)
    /\ ~pruned
    /\ totalFiles < MaxFiles
    /\ \E n \in (lastName + 1)..Len(FileNames), isLog \in BOOLEAN, infoOk \in BOOLEAN,
          modTime \in ModTimes, opens \in BOOLEAN :
        /\ lastName' = n
        /\ IF ~isLog \/ SkipsFile(days > 0, infoOk, modTime, Cutoff(days))
           THEN UNCHANGED <<pc, file, last, rawCount, parseErrs, totalFiles, warnings>>
           ELSE /\ totalFiles' = totalFiles + 1
                /\ IF opens
                   THEN /\ pc' = "scan"
                        /\ file' = [project |-> Projects[dir], base |-> FileNames[n]]
                        /\ last' = NoLine
                        /\ rawCount' = 0
                        /\ parseErrs' = 0
                        /\ UNCHANGED warnings
                   ELSE /\ warnings' = warnings + 1
                        /\ UNCHANGED <<pc, file, last, rawCount, parseErrs>>
    /\ UNCHANGED <<days, projectFilter, root, call, dir, pruned, nLines, deduped, parseErrors,
                   result, pending, accepted>>

\* A .jsonl file directly under projects/, which WalkDir lists after the
\* project directories: its name is the first path segment, so the callback
\* takes the name for the project slug.
StrayFile == "stray.jsonl"
StraySlug == <<"s", "t", "r", "a", "y", ".", "j", "s", "o", "n", "l">>

\* The callback on that file: the directory branch, and with it the project
\* filter, is not taken for a file.
VisitRootFile ==
    /\ pc = "walk"
    /\ dir <= Len(Projects)
    /\ totalFiles < MaxFiles
    /\ dir' = Len(Projects) + 1
    /\ pruned' = FALSE
    /\ lastName' = 0
    /\ \E infoOk \in BOOLEAN, modTime \in ModTimes, opens \in BOOLEAN :
        IF SkipsFile(days > 0, infoOk, modTime, Cutoff(days))
        THEN UNCHANGED <<pc, file, last, rawCount, parseErrs, totalFiles, warnings>>
        ELSE /\ totalFiles' = totalFiles + 1
             /\ IF opens
                THEN /\ pc' = "scan"
                     /\ file' = [project |-> StraySlug, base |-> StrayFile]
                     /\ last' = NoLine
                     /\ rawCount' = 0
                     /\ parseErrs' = 0
                     /\ UNCHANGED warnings
                ELSE /\ warnings' = warnings + 1
                     /\ UNCHANGED <<pc, file, last, rawCount, parseErrs>>
    /\ UNCHANGED <<days, projectFilter, root, call, nLines, deduped, parseErrors,
                   result, pending, accepted>>

----------------------------------------------------------------------------
(* parseLogs: the fold of the canonical records into the views. *)

EmptyMap == [k \in {} |-> 0]

ZeroBucket ==
    [InputTokens |-> 0, OutputTokens |-> 0, CacheRead |-> 0, CacheWrite5m |-> 0,
     CacheWrite1h |-> 0, Cost |-> 0, Requests |-> 0]

\* The body of the loop over buckets, for record r.
AddRecordNoRequest(b, r) ==
    LET cw == CacheWriteTokens(r.Usage)
    IN  [InputTokens  |-> b.InputTokens + r.Usage.InputTokens,
         OutputTokens |-> b.OutputTokens + r.Usage.OutputTokens,
         CacheRead    |-> b.CacheRead + r.Usage.CacheReadInputTokens,
         CacheWrite5m |-> b.CacheWrite5m + cw[1],
         CacheWrite1h |-> b.CacheWrite1h + cw[2],
         Cost         |-> b.Cost + calcCost(r.Model, r.Usage),
         Requests     |-> IF b.Requests = 0 THEN 1 ELSE b.Requests]
AddRecord(b, r) ==
    LET cw == CacheWriteTokens(r.Usage)
    IN  [InputTokens  |-> b.InputTokens + r.Usage.InputTokens,
         OutputTokens |-> b.OutputTokens + r.Usage.OutputTokens,
         CacheRead    |-> b.CacheRead + r.Usage.CacheReadInputTokens,
         CacheWrite5m |-> b.CacheWrite5m + cw[1],
         CacheWrite1h |-> b.CacheWrite1h + cw[2],
         Cost         |-> b.Cost + calcCost(r.Model, r.Usage),
         Requests     |-> b.Requests + 1]

\* getOrCreateBucket: the map with a zero bucket under key if it had none.
getOrCreateBucket(m, key) ==
    IF key \in DOMAIN m THEN m
    ELSE [k \in DOMAIN m \cup {key} |-> IF k = key THEN ZeroBucket ELSE m[k]]

\* getOrCreateNestedBucket: the same, one level down.
getOrCreateNestedBucket(m, outerKey, innerKey) ==
    LET inner == IF outerKey \in DOMAIN m THEN m[outerKey] ELSE EmptyMap
    IN  [k \in DOMAIN m \cup {outerKey} |->
            IF k = outerKey THEN getOrCreateBucket(inner, innerKey) ELSE m[k]]

\* Record r added to the by-model view.
FoldModel(m, r) ==
    [getOrCreateBucket(m, r.Model) EXCEPT ![r.Model] = AddRecord(@, r)]

\* Record r added to a two-level view under outerKey.
FoldNestedOverwrite(m, outerKey, r) ==
    [getOrCreateNestedBucket(m, outerKey, r.Model) EXCEPT
        ![outerKey][r.Model] = AddRecord(ZeroBucket, r)]
FoldNested(m, outerKey, r) ==
    [getOrCreateNestedBucket(m, outerKey, r.Model) EXCEPT
        ![outerKey][r.Model] = AddRecord(@, r)]

\* The branch key of a record: its label, or the reserved key.
BranchKeyRaw(r) == r.Branch
BranchKey(r) == IF r.Branch = "" THEN "(no branch)" ELSE r.Branch

\* Record r added to the by-(project, branch, model) view.
FoldBranch(m, r) ==
    LET byBranch == IF r.Project \in DOMAIN m THEN m[r.Project] ELSE EmptyMap
    IN  [k \in DOMAIN m \cup {r.Project} |->
            IF k = r.Project THEN FoldNested(byBranch, BranchKey(r), r) ELSE m[k]]

NoResult ==
    [ModelUsage |-> EmptyMap, DailyUsage |-> EmptyMap, ProjectUsage |-> EmptyMap,
     BranchUsage |-> EmptyMap, TotalFiles |-> 0, TotalRecords |-> 0, ParseErrors |-> 0]

\* WalkDir has returned (its position in the tree is gone): the ParseResult is
\* allocated with its counters.
EndWalkCountsEvents ==
    /\ pc = "walk"
    /\ pc' = "agg"
    /\ result' = [NoResult EXCEPT !.TotalFiles = totalFiles,
                                  !.TotalRecords = Len(accepted),
                                  !.ParseErrors = parseErrors]
    /\ pending' = DOMAIN deduped
    /\ dir' = 0
    /\ pruned' = FALSE
    /\ lastName' = 0
    /\ UNCHANGED <<days, projectFilter, root, call, warnings, file, last, rawCount, parseErrs, nLines, deduped,
                   totalFiles, parseErrors, accepted>>
EndWalk ==
    /\ pc = "walk"
    /\ pc' = "agg"
    /\ result' = [NoResult EXCEPT !.TotalFiles = totalFiles,
                                  !.TotalRecords = Cardinality(DOMAIN deduped),
                                  !.ParseErrors = parseErrors]
    /\ pending' = DOMAIN deduped
    /\ dir' = 0
    /\ pruned' = FALSE
    /\ lastName' = 0
    /\ UNCHANGED <<days, projectFilter, root, call, warnings, file, last, rawCount, parseErrs, nLines, deduped,
                   totalFiles, parseErrors, accepted>>

\* One iteration of the loop over deduped; Go ranges over a map in any order.
FoldEager ==
    /\ pc \in {"walk", "agg"}
    /\ \E id \in (IF pc = "agg" THEN pending ELSE DOMAIN deduped) :
        LET r == deduped[id]
        IN  /\ result' = [result EXCEPT
                    !.ModelUsage = FoldModel(@, r),
                    !.DailyUsage = FoldNested(@, r.Date, r),
                    !.ProjectUsage = FoldNested(@, r.Project, r),
                    !.BranchUsage = FoldBranch(@, r)]
            /\ pending' = pending \ {id}
    /\ UNCHANGED <<pc, days, projectFilter, root, call, warnings, dir, pruned, lastName, file, last, rawCount,
                   parseErrs, nLines, deduped, totalFiles, parseErrors, accepted>>
Fold ==
    /\ pc = "agg"
    /\ \E id \in pending :
        LET r == deduped[id]
        IN  /\ result' = [result EXCEPT
                    !.ModelUsage = FoldModel(@, r),
                    !.DailyUsage = FoldNested(@, r.Date, r),
                    !.ProjectUsage = FoldNested(@, r.Project, r),
                    !.BranchUsage = FoldBranch(@, r)]
            /\ pending' = pending \ {id}
    /\ UNCHANGED <<pc, days, projectFilter, root, call, warnings, dir, pruned, lastName, file, last, rawCount,
                   parseErrs, nLines, deduped, totalFiles, parseErrors, accepted>>

\* The loop is over: parseLogs returns (result, nil).
Return ==
    /\ pc = "agg"
    /\ pending = {}
    /\ pc' = "done"
    /\ UNCHANGED <<days, projectFilter, root, call, warnings, dir, pruned, lastName, file, last, rawCount, parseErrs,
                   nLines, deduped, totalFiles, parseErrors, result, pending, accepted>>

----------------------------------------------------------------------------
(* The runs. *)

\* A call parseLogs(baseDir, d, f) with d in D and f in F, before its first statement.
InitOf(D, F) ==
    /\ pc = "start"
    /\ days \in D
    /\ projectFilter \in F
    /\ root \in Roots
    /\ call = NoCall
    /\ warnings = 0
    /\ dir = 0
    /\ pruned = FALSE
    /\ lastName = 0
    /\ file = NoFile
    /\ last = NoLine
    /\ rawCount = 0
    /\ parseErrs = 0
    /\ nLines = 0
    /\ deduped = EmptyMap
    /\ totalFiles = 0
    /\ parseErrors = 0
    /\ result = NoResult
    /\ pending = {}
    /\ accepted = <<>>

\* parseLogs(baseDir, 0, ""): no cutoff, no filter.
Init == InitOf({0}, {NoFilter})

NextOn(L) ==
    \/ Start
    \/ EnterDir
    \/ VisitFile
    \/ ScanLine(L)
    \/ EndFile
    \/ ScanError
    \/ EndWalk
    \/ Fold
    \/ Return

Next == NextOn(Lines)

Spec == Init /\ [][Next]_vars

\* parseLogs(baseDir, n, "") for every cutoff n up to MaxDays, and none.
InitCutoff == InitOf(0..MaxDays, {NoFilter})

NextCutoff == NextOn(CutoffLines)

SpecCutoff == InitCutoff /\ [][NextCutoff]_vars

\* parseLogs(baseDir, 0, f) with a project filter f, over a tree that also
\* has a log file directly under projects/.
FilterLines ==
    {GarbledLine, Assistant("req_1", TsAt(Now), "", Opus46, U1),
     Assistant("", TsAt(Now), "", Sonnet46, U2)}

InitFilter == InitOf({0}, Filters \ {NoFilter})

NextFilter ==
    \/ NextOn(FilterLines)
    \/ VisitRootFile

SpecFilter == InitFilter /\ [][NextFilter]_vars

\* parseLogs with the mtime test (parser.go:162-166) taken out, over
\* append-only files: the callback hands every .jsonl file to parseFile, and
\* no line of a file is stamped later than the file was last modified.
VisitFileNoSkip ==
    /\ pc = "walk"
    /\ dir \in 1..Len(Projects)
    /\ ~pruned
    /\ totalFiles < MaxFiles
    /\ \E n \in (lastName + 1)..Len(FileNames), isLog \in BOOLEAN, modTime \in ModTimes,
          opens \in BOOLEAN :
        /\ lastName' = n
        /\ IF ~isLog
           THEN UNCHANGED <<pc, file, last, rawCount, parseErrs, totalFiles, warnings>>
           ELSE /\ totalFiles' = totalFiles + 1
                /\ IF opens
                   THEN /\ pc' = "scan"
                        /\ file' = [project |-> Projects[dir], base |-> FileNames[n],
                                    modTime |-> modTime]
                        /\ last' = NoLine
                        /\ rawCount' = 0
                        /\ parseErrs' = 0
                        /\ UNCHANGED warnings
                   ELSE /\ warnings' = warnings + 1
                        /\ UNCHANGED <<pc, file, last, rawCount, parseErrs>>
    /\ UNCHANGED <<days, projectFilter, root, call, dir, pruned, nLines, deduped, parseErrors,
                   result, pending, accepted>>

\* The lines an append-only file last modified at modTime can hold.
AppendOnly(L, modTime) ==
    {l \in L : l.Timestamp.kind = "rfc3339" => l.Timestamp.instant <= modTime}

\* Lines stamped before every cutoff tried.
OldLines ==
    {Assistant("req_3", TsAt(LocalMidnight(Today - MaxDays) - 1), "", Opus46, U1)}

\* The lines the open file can hold.
AppendOnlyLines ==
    IF file = NoFile THEN {} ELSE AppendOnly(CutoffLines \cup OldLines, file.modTime)

NextNoSkip ==
    \/ Start
    \/ EnterDir
    \/ VisitFileNoSkip
    \/ ScanLine(AppendOnlyLines)
    \/ EndFile
    \/ ScanError
    \/ EndWalk
    \/ Fold
    \/ Return

SpecNoSkip == InitCutoff /\ [][NextNoSkip]_vars

\* parseLogs over files with very long lines.  scanner.Buffer gives the
\* scanner a buffer that grows to maxTokenSize bytes and no further.
maxTokenSize == 104857600

\* Line lengths in bytes, newline not counted: around the limit.
LineSizes == {maxTokenSize - 1, maxTokenSize, maxTokenSize + 1}

\* Line l with its length.
Sized(l, n) == [f \in DOMAIN l \cup {"size"} |-> IF f = "size" THEN n ELSE l[f]]

LongLines ==
    {Sized(l, n) :
        l \in {Assistant("req_1", TsAt(Now), "", Opus46, U1),
               Assistant("req_2", TsAt(Now), "", Sonnet46, U2)},
        n \in LineSizes}

\* bufio.Scanner gives up with ErrTooLong when its buffer is full at
\* maxTokenSize bytes and holds no newline: the line does not fit.
TooLongNever(size) == FALSE
TooLong(size) == size >= maxTokenSize

\* The scanner on the next line of the file: Scan() delivers it to the loop
\* body, or returns false with Err() = ErrTooLong, parseFile returns the
\* error and the callback warns and returns.
ScanSized ==
    /\ pc = "scan"
    /\ nLines < MaxLines
    /\ \E line \in LongLines :
        IF TooLong(line.size)
        THEN /\ last' = line
             /\ nLines' = nLines + 1
             /\ pc' = "walk"
             /\ file' = NoFile
             /\ rawCount' = 0
             /\ parseErrs' = 0
             /\ warnings' = warnings + 1
             /\ UNCHANGED <<days, projectFilter, root, call, dir, pruned, lastName, deduped,
                            totalFiles, parseErrors, result, pending, accepted>>
        ELSE ScanLine({line})

NextLong ==
    \/ Start
    \/ EnterDir
    \/ VisitFile
    \/ ScanSized
    \/ EndFile
    \/ ScanError
    \/ EndWalk
    \/ Fold
    \/ Return

SpecLong == Init /\ [][NextLong]_vars

----------------------------------------------------------------------------
(* Direct calls of the pure functions and methods, as the unit tests make    *)
(* them: no run of parseLogs is in progress (pc = "calls").                  *)

\* The variables a direct call leaves alone.
walkVars == <<pc, days, projectFilter, root, warnings, dir, pruned, lastName, file, last,
              rawCount, parseErrs, nLines, deduped, totalFiles, parseErrors, pending, accepted>>

\* Model identifiers: the rate-table keys, the family prefixes, the prefixes
\* continued by a date or by one more digit, and identifiers of no family.
Dated2026 == <<"-", "2", "0", "2", "6", "0", "1", "0", "1">>
ModelIds ==
    {pricingTable[k].Key : k \in 1..Len(pricingTable)}
    \cup {familyPrefixesDeclared[k].Prefix : k \in 1..Len(familyPrefixesDeclared)}
    \cup {familyPrefixesDeclared[k].Prefix \o Dated2026 : k \in 1..Len(familyPrefixesDeclared)}
    \cup {familyPrefixesDeclared[k].Prefix \o <<"0">> : k \in 1..Len(familyPrefixesDeclared)}
    \cup {<<>>, Synthetic, Claude, OpusFam, OpusFam \o <<"5">>, Tail(Opus46),
          Claude \o <<"u", "n", "k", "n", "o", "w", "n", "-", "9", "9">>}

\* resolvePricing(model)
CallResolvePricing ==
    /\ pc = "calls"
    /\ call = NoCall
    /\ \E model \in ModelIds :
        call' = [op |-> "resolvePricing", model |-> model, ret |-> resolvePricing(model)]
    /\ UNCHANGED <<walkVars, result>>

\* Usage payloads: each counter zero or Ktok tokens, the flat cache total
\* also twice that, the breakdown absent, all zero, or with one or both
\* tiers set.  (A product of a million tokens and a rate is beyond TLC's
\* integers; Ktok tokens cost a thousandth of it.)
Breakdowns ==
    {NoCacheCreation} \cup {Breakdown(c5m, c1h) : c5m \in {0, Ktok}, c1h \in {0, Ktok}}
Usages ==
    {MkUsage(in, out, read, flat, cc) :
        in \in {0, Ktok}, out \in {0, Ktok}, read \in {0, Ktok},
        flat \in {0, Ktok, 2 * Ktok}, cc \in Breakdowns}

\* Models priced by calcCost in the direct calls: an exact key of each
\* family, a prefix match and the fallback.
CostModels ==
    {Opus46, Opus41Dated, Sonnet46, Haiku35Dated, Opus45 \o Dated2026,
     Claude \o <<"u", "n", "k", "n", "o", "w", "n", "-", "9", "9">>}

\* usage.CacheWriteTokens()
CallCacheWriteTokens ==
    /\ pc = "calls"
    /\ call = NoCall
    /\ \E usage \in Usages :
        call' = [op |-> "CacheWriteTokens", usage |-> usage, ret |-> CacheWriteTokens(usage)]
    /\ UNCHANGED <<walkVars, result>>

\* calcCost(model, usage)
CallCalcCost ==
    /\ pc = "calls"
    /\ call = NoCall
    /\ \E model \in CostModels, usage \in Usages :
        call' = [op |-> "calcCost", model |-> model, usage |-> usage,
                 ret |-> calcCost(model, usage)]
    /\ UNCHANGED <<walkVars, result>>

(* ParseResult.Totals and ParseResult.DateRange (parser.go), called on     *)
(* hand-built results as the unit tests do.  Both range over a Go map,      *)
(* whose iteration order is any order: one step per key.                     *)

\* The bytes of the strings of Calendar, in Calendar's order.
CalendarBytes ==
    <<<<50, 48, 50, 54, 45, 48, 50, 45, 50, 54>>,
      <<50, 48, 50, 54, 45, 48, 50, 45, 50, 55>>,
      <<50, 48, 50, 54, 45, 48, 50, 45, 50, 56>>,
      <<50, 48, 50, 54, 45, 48, 51, 45, 48, 49>>,
      <<50, 48, 50, 54, 45, 48, 51, 45, 48, 50>>,
      <<50, 48, 50, 54, 45, 48, 51, 45, 48, 51>>,
      <<50, 48, 50, 54, 45, 48, 51, 45, 48, 52>>,
      <<50, 48, 50, 54, 45, 48, 51, 45, 48, 53>>,
      <<50, 48, 50, 54, 45, 48, 51, 45, 48, 54>>,
      <<50, 48, 50, 54, 45, 48, 51, 45, 48, 55>>>>

\* The bytes of a date key; of the empty string, none.
Bytes(str) ==
    IF str = "" THEN <<>>
    ELSE CalendarBytes[CHOOSE i \in 1..Len(Calendar) : Calendar[i] = str]

\* Go's a < b on strings: bytewise lexicographic order.
RECURSIVE BytesLess(_, _)
BytesLess(a, b) ==
    IF b = <<>> THEN FALSE
    ELSE IF a = <<>> THEN TRUE
    ELSE IF Head(a) # Head(b) THEN Head(a) < Head(b)
    ELSE BytesLess(Tail(a), Tail(b))
StrLess(a, b) == BytesLess(Bytes(a), Bytes(b))

\* A bucket with the given counters, as TestTotals writes them.
Bucket(in, out, read, c5m, c1h, cost, requests) ==
    [InputTokens |-> in, OutputTokens |-> out, CacheRead |-> read, CacheWrite5m |-> c5m,
     CacheWrite1h |-> c1h, Cost |-> cost, Requests |-> requests]

\* The by-model buckets of TestTotals (costs 1.5 and 0.5 dollars).
TestBuckets ==
    [m \in {Opus46, Haiku45Dated} |->
        IF m = Opus46 THEN Bucket(1000, 500, 200, 100, 50, 1500000000, 2)
        ELSE Bucket(800, 300, 100, 60, 40, 500000000, 3)]

\* The date keys of the hand-built by-date views.
TestDates == {"unknown", Calendar[1], Calendar[3], Calendar[4]}

\* Hand-built results: a by-model view over some of the test buckets and a
\* by-date view over some of the test dates, one empty bucket under each.
TestResults ==
    {[NoResult EXCEPT
        !.ModelUsage = [m \in M |-> TestBuckets[m]],
        !.DailyUsage = [d \in D |-> [m \in {Opus46} |-> ZeroBucket]]] :
     M \in SUBSET DOMAIN TestBuckets, D \in SUBSET TestDates}

\* var t UsageTotals
ZeroTotals ==
    [Cost |-> 0, Input |-> 0, Output |-> 0, CacheR |-> 0, CacheW |-> 0, CacheW5m |-> 0,
     CacheW1h |-> 0, Requests |-> 0]

\* The body of Totals' loop for bucket b.
AddBucketOneTier(t, b) ==
    [t EXCEPT !.Cost = @ + b.Cost, !.Input = @ + b.InputTokens, !.Output = @ + b.OutputTokens,
              !.CacheR = @ + b.CacheRead, !.CacheW5m = @ + b.CacheWrite5m,
              !.Requests = @ + b.Requests]
AddBucket(t, b) ==
    [t EXCEPT !.Cost = @ + b.Cost, !.Input = @ + b.InputTokens, !.Output = @ + b.OutputTokens,
              !.CacheR = @ + b.CacheRead, !.CacheW5m = @ + b.CacheWrite5m,
              !.CacheW1h = @ + b.CacheWrite1h, !.Requests = @ + b.Requests]

\* r.Totals() is called.
TotalsBegin ==
    /\ pc = "calls"
    /\ call = NoCall
    /\ call' = [op |-> "Totals", todo |-> DOMAIN result.ModelUsage, t |-> ZeroTotals,
                returned |-> FALSE]
    /\ UNCHANGED <<walkVars, result>>

\* One iteration of the loop over r.ModelUsage.
TotalsStep ==
    /\ call.op = "Totals"
    /\ \E m \in call.todo :
        call' = [call EXCEPT !.todo = @ \ {m}, !.t = AddBucket(@, result.ModelUsage[m])]
    /\ UNCHANGED <<walkVars, result>>

\* t.CacheW = t.CacheW5m + t.CacheW1h; return t
TotalsReturn ==
    /\ call.op = "Totals"
    /\ call.todo = {}
    /\ ~call.returned
    /\ call' = [call EXCEPT !.t.CacheW = call.t.CacheW5m + call.t.CacheW1h,
                            !.returned = TRUE]
    /\ UNCHANGED <<walkVars, result>>

\* DateRange's tests on a key d against the running from and to.
BeforeFromNoEmpty(d, from) == StrLess(d, from)
BeforeFrom(d, from) == from = "" \/ StrLess(d, from)
AfterTo(d, to) == to = "" \/ StrLess(to, d)

\* r.DateRange() is called: from and to are the empty string.
DateRangeBegin ==
    /\ pc = "calls"
    /\ call = NoCall
    /\ call' = [op |-> "DateRange", todo |-> DOMAIN result.DailyUsage, from |-> "", to |-> ""]
    /\ UNCHANGED <<walkVars, result>>

\* One iteration of the loop over r.DailyUsage; the function has returned
\* (from, to) when no key is left.
DateRangeStep ==
    /\ call.op = "DateRange"
    /\ \E d \in call.todo :
        call' = IF d = "unknown"
                THEN [call EXCEPT !.todo = @ \ {d}]
                ELSE [call EXCEPT !.todo = @ \ {d},
                                  !.from = IF BeforeFrom(d, @) THEN d ELSE @,
                                  !.to = IF AfterTo(d, @) THEN d ELSE @]
    /\ UNCHANGED <<walkVars, result>>

\* No parseLogs run: the functions are called on their own.
InitCalls ==
    /\ pc = "calls"
    /\ days = 0
    /\ projectFilter = NoFilter
    /\ root = "dir"
    /\ call = NoCall
    /\ warnings = 0
    /\ dir = 0
    /\ pruned = FALSE
    /\ lastName = 0
    /\ file = NoFile
    /\ last = NoLine
    /\ rawCount = 0
    /\ parseErrs = 0
    /\ nLines = 0
    /\ deduped = EmptyMap
    /\ totalFiles = 0
    /\ parseErrors = 0
    /\ result \in TestResults
    /\ pending = {}
    /\ accepted = <<>>

NextCalls ==
    \/ CallResolvePricing
    \/ CallCacheWriteTokens
    \/ CallCalcCost
    \/ TotalsBegin
    \/ TotalsStep
    \/ TotalsReturn
    \/ DateRangeBegin
    \/ DateRangeStep

SpecCalls == InitCalls /\ [][NextCalls]_vars

----------------------------------------------------------------------------
(* Package initialization followed by lookups: init() sorts the prefix      *)
(* table with sort.Slice, which promises no order among entries the less    *)
(* function does not separate.                                              *)

\* The entries of S that less(i, j) puts before every other entry of S.
Shortest(S) == {e \in S : \A o \in S : Len(e.Prefix) <= Len(o.Prefix)}
Longest(S) == {e \in S : \A o \in S : Len(o.Prefix) <= Len(e.Prefix)}

\* Every order sort.Slice can leave the entries of S in.
RECURSIVE SortOutcomes(_)
SortOutcomes(S) ==
    IF S = {} THEN {<<>>}
    ELSE UNION {{<<e>> \o t : t \in SortOutcomes(S \ {e})} : e \in Longest(S)}

DeclaredEntries == {familyPrefixesDeclared[k] : k \in 1..Len(familyPrefixesDeclared)}

InitOutcomes == SortOutcomes(DeclaredEntries)

\* init()
PricingInit ==
    /\ pc = "init"
    /\ pc' = "calls"
    /\ \E t \in InitOutcomes :
        call' = [op |-> "init", table |-> t]
    /\ UNCHANGED <<days, projectFilter, root, warnings, dir, pruned, lastName, file, last,
                   rawCount, parseErrs, nLines, deduped, totalFiles, parseErrors, pending,
                   accepted, result>>

\* resolvePricing(model), on the table as init() left it.
Lookup ==
    /\ pc = "calls"
    /\ \E model \in ModelIds :
        call' = [op |-> "resolvePricing", table |-> call.table, model |-> model,
                 ret |-> resolvePricingIn(call.table, model)]
    /\ UNCHANGED <<walkVars, result>>

\* The process before any init function has run.
InitPackage ==
    /\ pc = "init"
    /\ days = 0
    /\ projectFilter = NoFilter
    /\ root = "dir"
    /\ call = [op |-> "load", table |-> familyPrefixesDeclared]
    /\ warnings = 0
    /\ dir = 0
    /\ pruned = FALSE
    /\ lastName = 0
    /\ file = NoFile
    /\ last = NoLine
    /\ rawCount = 0
    /\ parseErrs = 0
    /\ nLines = 0
    /\ deduped = EmptyMap
    /\ totalFiles = 0
    /\ parseErrors = 0
    /\ result = NoResult
    /\ pending = {}
    /\ accepted = <<>>

NextPackage ==
    \/ PricingInit
    \/ Lookup

SpecPackage == InitPackage /\ [][NextPackage]_vars

----------------------------------------------------------------------------
(* parseSession and sessionCost (statusline.go): the transcript, then the   *)
(* files of its subagents directory, all into one map.  pc is "session"     *)
(* at the call, "scan" inside parseFile, "readdir" after the transcript,    *)
(* "entries" in the loop over the directory, "done" or "failed" at the      *)
(* return.  dir is 0 in the transcript and 1 in the subagents directory,    *)
(* lastName the index of the last directory entry looked at.               *)

\* The transcript's base name and the entries os.ReadDir can list, in its
\* order (sorted by name): two logs, a nested directory, another file.
Transcript == "abc123.jsonl"
SubagentEntries ==
    <<[name |-> "agent-a.jsonl", isDir |-> FALSE, isLog |-> TRUE],
      [name |-> "agent-b.jsonl", isDir |-> FALSE, isLog |-> TRUE],
      [name |-> "deep.jsonl", isDir |-> TRUE, isLog |-> TRUE],
      [name |-> "notes.txt", isDir |-> FALSE, isLog |-> FALSE]>>

\* The lines of a session: one request streamed under two models, a second
\* request, a line without id, an old one, and lines that yield nothing.
SessionLines ==
    {GarbledLine, SyntheticLine,
     Assistant("req_1", TsAt(Now), "", Opus46, U1),
     Assistant("req_1", TsAt(Now), "", Haiku45Dated, U2),
     Assistant("req_2", TsAt(Now - MaxDays * SecondsPerDay), "", Opus46, U2),
     Assistant("", TsEmpty, "", Sonnet46, U1)}

\* parseFile(transcriptPath, time.Time{}, false, "", deduped): os.Open fails
\* and parseSession returns (nil, error), or the scan starts.
SessionStart ==
    /\ pc = "session"
    /\ \E opens \in BOOLEAN :
        IF opens
        THEN /\ pc' = "scan"
             /\ file' = [project |-> <<>>, base |-> Transcript]
        ELSE /\ pc' = "failed"
             /\ UNCHANGED file
    /\ UNCHANGED <<days, projectFilter, root, call, warnings, dir, pruned, lastName, last,
                   rawCount, parseErrs, nLines, deduped, totalFiles, parseErrors, result,
                   pending, accepted>>

\* parseFile returns without error: after the transcript parseSession reads
\* the directory, after a subagent file it goes on with the entries.  The
\* counts parseFile returns are dropped.
SessionEndFileFreshMap ==
    /\ pc = "scan"
    /\ pc' = IF dir = 0 THEN "readdir" ELSE "entries"
    /\ file' = NoFile
    /\ last' = NoLine
    /\ deduped' = EmptyMap
    /\ UNCHANGED <<days, projectFilter, root, call, warnings, dir, pruned, lastName, rawCount,
                   parseErrs, nLines, totalFiles, parseErrors, result, pending, accepted>>
SessionEndFile ==
    /\ pc = "scan"
    /\ pc' = IF dir = 0 THEN "readdir" ELSE "entries"
    /\ file' = NoFile
    /\ last' = NoLine
    /\ UNCHANGED <<days, projectFilter, root, call, warnings, dir, pruned, lastName, rawCount,
                   parseErrs, nLines, deduped, totalFiles, parseErrors, result, pending,
                   accepted>>

\* parseFile returns scanner.Err(): for the transcript parseSession returns
\* (nil, error); for a subagent file it warns and goes on.
SessionScanError ==
    /\ pc = "scan"
    /\ file' = NoFile
    /\ last' = NoLine
    /\ IF dir = 0
       THEN /\ pc' = "failed"
            /\ deduped' = EmptyMap
            /\ UNCHANGED warnings
       ELSE /\ pc' = "entries"
            /\ warnings' = warnings + 1
            /\ UNCHANGED deduped
    /\ UNCHANGED <<days, projectFilter, root, call, dir, pruned, lastName, rawCount, parseErrs,
                   nLines, totalFiles, parseErrors, result, pending, accepted>>

\* os.ReadDir(subagentDir): the directory does not exist and parseSession
\* returns the map, another error and it returns (nil, error), or the loop
\* over the entries starts.
ReadDir ==
    /\ pc = "readdir"
    /\ \E outcome \in {"entries", "missing", "error"} :
        /\ pc' = CASE outcome = "entries" -> "entries"
                    [] outcome = "missing" -> "done"
                    [] outcome = "error" -> "failed"
        /\ dir' = IF outcome = "entries" THEN 1 ELSE dir
        /\ deduped' = IF outcome = "error" THEN EmptyMap ELSE deduped
    /\ lastName' = 0
    /\ UNCHANGED <<days, projectFilter, root, call, warnings, pruned, file, last, rawCount,
                   parseErrs, nLines, totalFiles, parseErrors, result, pending, accepted>>

\* The loop body for the next entry the directory has: directories and files
\* that are not .jsonl are passed over, a log that cannot be opened is
\* reported, any other is scanned.
VisitEntry ==
    /\ pc = "entries"
    /\ \E n \in (lastName + 1)..Len(SubagentEntries), opens \in BOOLEAN :
        /\ lastName' = n
        /\ IF SubagentEntries[n].isDir \/ ~SubagentEntries[n].isLog
           THEN UNCHANGED <<pc, file, last, rawCount, parseErrs, warnings>>
           ELSE IF opens
                THEN /\ pc' = "scan"
                     /\ file' = [project |-> <<>>, base |-> SubagentEntries[n].name]
                     /\ last' = NoLine
                     /\ rawCount' = 0
                     /\ parseErrs' = 0
                     /\ UNCHANGED warnings
                ELSE /\ warnings' = warnings + 1
                     /\ UNCHANGED <<pc, file, last, rawCount, parseErrs>>
    /\ UNCHANGED <<days, projectFilter, root, call, dir, pruned, nLines, deduped, totalFiles,
                   parseErrors, result, pending, accepted>>

\* The directory has no further entry: parseSession returns (deduped, nil).
SessionReturn ==
    /\ pc = "entries"
    /\ pc' = "done"
    /\ UNCHANGED <<days, projectFilter, root, call, warnings, dir, pruned, lastName, file, last,
                   rawCount, parseErrs, nLines, deduped, totalFiles, parseErrors, result,
                   pending, accepted>>

\* sessionCost(deduped) is called on the returned map: total is 0.
SessionCostBegin ==
    /\ pc = "done"
    /\ call = NoCall
    /\ call' = [op |-> "sessionCost", todo |-> DOMAIN deduped, total |-> 0]
    /\ UNCHANGED <<walkVars, result>>

\* One iteration of sessionCost's loop over the map; it has returned total
\* when no key is left.
SessionCostStep ==
    /\ call.op = "sessionCost"
    /\ \E id \in call.todo :
        call' = [call EXCEPT !.todo = @ \ {id},
                            !.total = @ + calcCost(deduped[id].Model, deduped[id].Usage)]
    /\ UNCHANGED <<walkVars, result>>

InitSession ==
    /\ pc = "session"
    /\ days = 0
    /\ projectFilter = NoFilter
    /\ root = "dir"
    /\ call = NoCall
    /\ warnings = 0
    /\ dir = 0
    /\ pruned = FALSE
    /\ lastName = 0
    /\ file = NoFile
    /\ last = NoLine
    /\ rawCount = 0
    /\ parseErrs = 0
    /\ nLines = 0
    /\ deduped = EmptyMap
    /\ totalFiles = 0
    /\ parseErrors = 0
    /\ result = NoResult
    /\ pending = {}
    /\ accepted = <<>>

NextSession ==
    \/ SessionStart
    \/ ScanLine(SessionLines)
    \/ SessionEndFile
    \/ SessionScanError
    \/ ReadDir
    \/ VisitEntry
    \/ SessionReturn
    \/ SessionCostBegin
    \/ SessionCostStep

SpecSession == InitSession /\ [][NextSession]_vars

----------------------------------------------------------------------------
(* float64 as Go computes with it.  Cost is a float64: calcCost and the      *)
(* `b.Cost += cost` of the fold round after every operation (IEEE 754        *)
(* binary64, round to nearest, ties to even).  A natural number is the set   *)
(* of the positions of its 1 bits; a float64 is a 53-bit mantissa m and an   *)
(* exponent e, of value m * 2^e, or zero.  Only positive, normal values      *)
(* occur.  Products are rounded before they are added (no fused              *)
(* multiply-add).                                                            *)

RECURSIVE BitsOf(_)
BitsOf(n) ==
    IF n = 0 THEN {}
    ELSE {i + 1 : i \in BitsOf(n \div 2)} \cup (IF n % 2 = 1 THEN {0} ELSE {})

Shl(S, k) == {i + k : i \in S}
Shr(S, k) == {i - k : i \in {j \in S : j >= k}}
Top(S) == CHOOSE i \in S : \A j \in S : j <= i

\* A + B: the sum without carries, plus the carries.
RECURSIVE BitsAdd(_, _)
BitsAdd(A, B) ==
    IF B = {} THEN A
    ELSE BitsAdd((A \cup B) \ (A \cap B), Shl(A \cap B, 1))

\* A - B for A >= B: the difference without borrows, minus the borrows.
RECURSIVE BitsSub(_, _)
BitsSub(A, B) ==
    IF B = {} THEN A
    ELSE BitsSub((A \cup B) \ (A \cap B), Shl(B \ A, 1))

\* A < B
BitsLess(A, B) ==
    /\ A # B
    /\ Top((A \cup B) \ (A \cap B)) \in B

RECURSIVE BitsMul(_, _)
BitsMul(A, B) ==
    IF B = {} THEN {}
    ELSE LET i == CHOOSE j \in B : TRUE
         IN  BitsAdd(Shl(A, i), BitsMul(A, B \ {i}))

\* Long division of A * 2^k by D, for A < 2 * D: the quotient bits from
\* position k down, and the remainder.
RECURSIVE BitsDiv(_, _, _, _, _)
BitsDiv(R, D, k, first, Q) ==
    IF k < 0 THEN [q |-> Q, r |-> R]
    ELSE LET R2 == IF first THEN R ELSE Shl(R, 1)
             ge == ~BitsLess(R2, D)
         IN  IF ge THEN BitsDiv(BitsSub(R2, D), D, k - 1, FALSE, Q \cup {k})
             ELSE BitsDiv(R2, D, k - 1, FALSE, Q)

Zero64 == [m |-> {}, e |-> 0]

\* S * 2^e rounded to 53 bits, ties to even; bit 0 of S may stand for any
\* non-zero rest below it.
Round64(S, e) ==
    LET k == Top(S) - 52
        M == Shr(S, k)
        half == (k - 1) \in S
        below == \E i \in S : i < k - 1
        M1 == IF half /\ (below \/ 0 \in M) THEN BitsAdd(M, {0}) ELSE M
    IN  IF 53 \in M1 THEN [m |-> Shr(M1, 1), e |-> e + k + 1]
        ELSE [m |-> M1, e |-> e + k]

\* float64(n) for an int n below 2^53: exact.
Float64(n) ==
    IF n = 0 THEN Zero64
    ELSE LET S == BitsOf(n)
         IN  [m |-> Shl(S, 52 - Top(S)), e |-> Top(S) - 52]

\* a + b
F64Add(a, b) ==
    IF a.m = {} THEN b
    ELSE IF b.m = {} THEN a
    ELSE LET x == IF a.e >= b.e THEN a ELSE b
             y == IF a.e >= b.e THEN b ELSE a
             d == x.e - y.e
             Y0 == Shl(y.m, 3)
             Y == Shr(Y0, d) \cup (IF \E i \in Y0 : i < d THEN {0} ELSE {})
         IN  Round64(BitsAdd(Shl(x.m, 3), Y), x.e - 3)

\* a * b
F64Mul(a, b) ==
    IF a.m = {} \/ b.m = {} THEN Zero64
    ELSE Round64(BitsMul(a.m, b.m), a.e + b.e)

\* a / b for b # 0
F64Div(a, b) ==
    IF a.m = {} THEN Zero64
    ELSE LET qr == BitsDiv(a.m, b.m, 56, TRUE, {})
             S == Shl(qr.q, 1) \cup (IF qr.r # {} THEN {0} ELSE {})
         IN  Round64(S, a.e - b.e - 57)

\* A decimal literal with three places, as the compiler converts it.
Literal64(milli) == F64Div(Float64(milli), Float64(1000))

\* ModelPricing as Go holds it, and its three methods.
Pricing64(model) ==
    LET p == resolvePricing(model)
    IN  [Input |-> Literal64(p.Input), Output |-> Literal64(p.Output)]
CacheWrite5m64(p) == F64Mul(p.Input, Literal64(1250))
CacheWrite1h64(p) == F64Mul(p.Input, Literal64(2000))
CacheRead64(p) == F64Mul(p.Input, Literal64(100))

\* calcCost in float64, term by term and from left to right.
calcCost64(model, usage) ==
    LET p == Pricing64(model)
        mtok == Float64(1000000)
        cw == CacheWriteTokens(usage)
        Term(tokens, rate) == F64Mul(F64Div(Float64(tokens), mtok), rate)
    IN  F64Add(F64Add(F64Add(F64Add(
            Term(usage.InputTokens, p.Input),
            Term(usage.OutputTokens, p.Output)),
            Term(cw[1], CacheWrite5m64(p))),
            Term(cw[2], CacheWrite1h64(p))),
            Term(usage.CacheReadInputTokens, CacheRead64(p)))

----------------------------------------------------------------------------
(* parseLogs with Cost in float64: the walk as before, the fold over the     *)
(* three views ParseResult has, each bucket's Cost a float64.                *)

ZeroBucket64 == [ZeroBucket EXCEPT !.Cost = Zero64]

\* The body of the loop over buckets, for record r.
AddRecord64(b, r) ==
    LET cw == CacheWriteTokens(r.Usage)
    IN  [InputTokens  |-> b.InputTokens + r.Usage.InputTokens,
         OutputTokens |-> b.OutputTokens + r.Usage.OutputTokens,
         CacheRead    |-> b.CacheRead + r.Usage.CacheReadInputTokens,
         CacheWrite5m |-> b.CacheWrite5m + cw[1],
         CacheWrite1h |-> b.CacheWrite1h + cw[2],
         Cost         |-> F64Add(b.Cost, calcCost64(r.Model, r.Usage)),
         Requests     |-> b.Requests + 1]

\* getOrCreateBucket and the update of the bucket, for the by-model view.
FoldModel64(m, r) ==
    LET b == IF r.Model \in DOMAIN m THEN m[r.Model] ELSE ZeroBucket64
    IN  [k \in DOMAIN m \cup {r.Model} |-> IF k = r.Model THEN AddRecord64(b, r) ELSE m[k]]

\* getOrCreateNestedBucket and the update, for a two-level view.
FoldNested64(m, outerKey, r) ==
    LET inner == IF outerKey \in DOMAIN m THEN m[outerKey] ELSE EmptyMap
    IN  [k \in DOMAIN m \cup {outerKey} |->
            IF k = outerKey THEN FoldModel64(inner, r) ELSE m[k]]

\* One iteration of the loop over deduped.
FoldRecord64(res, r) ==
    [res EXCEPT !.ModelUsage = FoldModel64(@, r),
                !.DailyUsage = FoldNested64(@, r.Date, r),
                !.ProjectUsage = FoldNested64(@, r.Project, r)]

\* The loop over deduped, one iteration at a time; Go ranges over a map in
\* any order.
Fold64 ==
    /\ pc = "agg"
    /\ \E id \in pending :
        /\ result' = FoldRecord64(result, deduped[id])
        /\ pending' = pending \ {id}
    /\ UNCHANGED <<pc, days, projectFilter, root, call, warnings, dir, pruned, lastName, file,
                   last, rawCount, parseErrs, nLines, deduped, totalFiles, parseErrors,
                   accepted>>

\* Three requests on one model whose costs do not add up to the same
\* float64 in every order, and a line that does not parse.
UsageF1 == MkUsage(100, 0, 0, 0, NoCacheCreation)
UsageF3 == MkUsage(300, 0, 0, 0, NoCacheCreation)
FloatLines ==
    {GarbledLine,
     Assistant("req_1", TsAt(Now), "", Opus46, UsageF1),
     Assistant("req_2", TsAt(Now), "", Opus46, UsageF1),
     Assistant("req_3", TsAt(Now), "", Opus46, UsageF3)}

NextFloat ==
    \/ Start
    \/ EnterDir
    \/ VisitFile
    \/ ScanLine(FloatLines)
    \/ EndFile
    \/ ScanError
    \/ EndWalk
    \/ Fold64
    \/ Return

SpecFloat == Init /\ [][NextFloat]_vars

----------------------------------------------------------------------------
(* Two invocations at once: parseLogs on the variables of the walk, and a    *)
(* parseSession whose locals are the fields of `call`.  Each step is a step  *)
(* of one of the two; the files are only read.                               *)

\* What the files hold while the two run: the transcript and every subagent
\* log, line by line; the walk meets the same lines under the projects tree.
TranscriptLines == <<Assistant("", TsAt(Now), "", Haiku45Dated, U2)>>

AgentLines == TranscriptLines

ContentOf(base) == IF base = Transcript THEN TranscriptLines ELSE AgentLines

PairLines == {TranscriptLines[i] : i \in DOMAIN TranscriptLines}

\* parseSession at its first statement: deduped := make(map...).
SessionCall ==
    [op |-> "parseSession", pc |-> "session", dir |-> 0, lastName |-> 0, base |-> "",
     rawCount |-> 0, n |-> 0, deduped |-> EmptyMap, accepted |-> <<>>]

\* parseFile(transcriptPath, ...) opens the transcript or fails.
PairSessionStart ==
    /\ call.pc = "session"
    /\ \E opens \in BOOLEAN :
        call' = IF opens THEN [call EXCEPT !.pc = "scan", !.base = Transcript]
                ELSE [call EXCEPT !.pc = "failed"]
    /\ UNCHANGED <<walkVars, result>>

\* The loop body of parseFile for one line, on the session's own map.
PairSessionScanShared ==
    /\ call.pc = "scan"
    /\ call.n < Len(ContentOf(call.base))
    /\ LET line == ContentOf(call.base)[call.n + 1]
            o == LineOutcome(line, 0, FALSE)
            raw == call.rawCount + 1
            id == RequestIdOf(line, call.base, raw)
            rec == MakeRecord(line, <<>>, o.date)
       IN  IF o.accept
            THEN /\ call' = [call EXCEPT !.n = @ + 1, !.rawCount = raw,
                                         !.accepted = Append(@, [id |-> id, rec |-> rec])]
                 /\ deduped' = Put(deduped, id, rec)
            ELSE /\ call' = [call EXCEPT !.n = @ + 1]
                 /\ UNCHANGED deduped
    /\ UNCHANGED <<pc, days, projectFilter, root, warnings, dir, pruned, lastName, file, last,
                   rawCount, parseErrs, nLines, totalFiles, parseErrors, pending, accepted,
                   result>>
PairSessionScan ==
    /\ call.pc = "scan"
    /\ call.n < Len(ContentOf(call.base))
    /\ LET line == ContentOf(call.base)[call.n + 1]
            o == LineOutcome(line, 0, FALSE)
            raw == call.rawCount + 1
            id == RequestIdOf(line, call.base, raw)
            rec == MakeRecord(line, <<>>, o.date)
       IN  call' = IF o.accept
                    THEN [call EXCEPT !.n = @ + 1, !.rawCount = raw,
                                      !.deduped = Put(@, id, rec),
                                      !.accepted = Append(@, [id |-> id, rec |-> rec])]
                    ELSE [call EXCEPT !.n = @ + 1]
    /\ UNCHANGED <<walkVars, result>>

\* parseFile returns: without error at the end of the file, or with a read
\* error anywhere (the transcript fails the session, a subagent file is
\* reported and passed over).
PairSessionEndFile ==
    /\ call.pc = "scan"
    /\ \E readError \in {call.n < Len(ContentOf(call.base)), TRUE} :
        call' = IF ~readError
                THEN [call EXCEPT !.pc = IF call.dir = 0 THEN "readdir" ELSE "entries"]
                ELSE IF call.dir = 0
                THEN [call EXCEPT !.pc = "failed", !.deduped = EmptyMap]
                ELSE [call EXCEPT !.pc = "entries"]
    /\ UNCHANGED <<walkVars, result>>

\* os.ReadDir(subagentDir)
PairReadDir ==
    /\ call.pc = "readdir"
    /\ \E outcome \in {"entries", "missing", "error"} :
        call' = IF outcome = "entries" THEN [call EXCEPT !.pc = "entries", !.dir = 1]
                ELSE IF outcome = "missing" THEN [call EXCEPT !.pc = "done"]
                ELSE [call EXCEPT !.pc = "failed", !.deduped = EmptyMap]
    /\ UNCHANGED <<walkVars, result>>

\* The loop over the entries, for the next entry the directory has.
PairVisitEntry ==
    /\ call.pc = "entries"
    /\ \E k \in (call.lastName + 1)..Len(SubagentEntries), opens \in BOOLEAN :
        call' = IF SubagentEntries[k].isDir \/ ~SubagentEntries[k].isLog \/ ~opens
                THEN [call EXCEPT !.lastName = k]
                ELSE [call EXCEPT !.lastName = k, !.pc = "scan", !.rawCount = 0, !.n = 0,
                                  !.base = SubagentEntries[k].name]
    /\ UNCHANGED <<walkVars, result>>

\* return deduped, nil
PairSessionReturn ==
    /\ call.pc = "entries"
    /\ call' = [call EXCEPT !.pc = "done"]
    /\ UNCHANGED <<walkVars, result>>

InitPair ==
    /\ pc = "start"
    /\ days = 0
    /\ projectFilter = NoFilter
    /\ root = "dir"
    /\ call = SessionCall
    /\ warnings = 0
    /\ dir = 0
    /\ pruned = FALSE
    /\ lastName = 0
    /\ file = NoFile
    /\ last = NoLine
    /\ rawCount = 0
    /\ parseErrs = 0
    /\ nLines = 0
    /\ deduped = EmptyMap
    /\ totalFiles = 0
    /\ parseErrors = 0
    /\ result = NoResult
    /\ pending = {}
    /\ accepted = <<>>

NextPair ==
    \/ NextOn(PairLines)
    \/ PairSessionStart
    \/ PairSessionScan
    \/ PairSessionEndFile
    \/ PairReadDir
    \/ PairVisitEntry
    \/ PairSessionReturn

SpecPair == InitPair /\ [][NextPair]_vars




\* The request ids of the events in history h.
Ids(h) == {h[i].id : i \in 1..Len(h)}

\* The last event of h that carries id.
LastOf(h, id) ==
    h[CHOOSE i \in 1..Len(h) :
        h[i].id = id /\ \A j \in (i + 1)..Len(h) : h[j].id # id].rec

\* The walk is over and the counters are in the result.
Walked == pc \in {"agg", "done"}

\* C1: the dedup map holds exactly one record per distinct request id among
\* the accepted events, that record is in every field (model, project, date,
\* usage) the last accepted event with the id, and TotalRecords is the number
\* of distinct ids.
C1_LastWriteWins ==
    /\ DOMAIN deduped = Ids(accepted)
    /\ \A id \in DOMAIN deduped : deduped[id] = LastOf(accepted, id)
    /\ Walked => result.TotalRecords = Cardinality(Ids(accepted))

\* Two events with one id that differ in model, project, date and usage have
\* been accepted and the run has returned.
C1_Witness ==
    /\ pc = "done"
    /\ \E i, j \in 1..Len(accepted) :
        /\ i < j
        /\ accepted[i].id = accepted[j].id
        /\ accepted[i].rec.Model # accepted[j].rec.Model
        /\ accepted[i].rec.Project # accepted[j].rec.Project
        /\ accepted[i].rec.Date # accepted[j].rec.Date
        /\ accepted[i].rec.Usage # accepted[j].rec.Usage

\* The sum of f[x] over x in S.
RECURSIVE SumOver(_, _)
SumOver(S, f) ==
    IF S = {} THEN 0
    ELSE LET x == CHOOSE y \in S : TRUE IN f[x] + SumOver(S \ {x}, f)

\* The requests a two-level view counts under outer key k.
RequestsUnder(view, k) ==
    SumOver(DOMAIN view[k], [m \in DOMAIN view[k] |-> view[k][m].Requests])

\* C2: dedup is global across the walk.  An id accepted in several project
\* directories is one canonical record, counted once, and it is counted
\* under the project of the event processed last and under no other.
C2_GlobalDedup ==
    pc = "done" =>
        /\ result.TotalRecords = Cardinality(Ids(accepted))
        /\ \A p \in DOMAIN result.ProjectUsage :
            RequestsUnder(result.ProjectUsage, p) =
                Cardinality({id \in Ids(accepted) : LastOf(accepted, id).Project = p})
        /\ \A id \in Ids(accepted) :
            LastOf(accepted, id).Project \in DOMAIN result.ProjectUsage

\* One id was accepted in two project directories, and the first of them
\* holds no other request.
C2_Witness ==
    /\ pc = "done"
    /\ \E i, j \in 1..Len(accepted) :
        /\ i < j
        /\ accepted[i].id = accepted[j].id
        /\ accepted[i].rec.Project # accepted[j].rec.Project
        /\ accepted[i].rec.Project \notin DOMAIN result.ProjectUsage
    /\ result.TotalRecords = 1

\* The integer fields of a bucket.
IntFields ==
    {"InputTokens", "OutputTokens", "CacheRead", "CacheWrite5m", "CacheWrite1h", "Requests"}

\* The outer keys of a two-level view that hold a bucket for model m.
KeysWith(view, m) == {k \in DOMAIN view : m \in DOMAIN view[k]}

\* Field f of model m summed over the outer keys of a two-level view.
SumField(view, m, f) ==
    SumOver(KeysWith(view, m), [k \in KeysWith(view, m) |-> view[k][m][f]])

\* The models a two-level view holds buckets for.
ModelsIn(view) == UNION {DOMAIN view[k] : k \in DOMAIN view}

\* C3: additivity.  For every model and every integer field, the by-model
\* bucket equals the sum of the model's by-date buckets and the sum of its
\* by-project buckets, and the by-date and by-project views hold exactly the
\* models of the by-model view.
C3_Additivity ==
    /\ ModelsIn(result.DailyUsage) = DOMAIN result.ModelUsage
    /\ ModelsIn(result.ProjectUsage) = DOMAIN result.ModelUsage
    /\ \A m \in DOMAIN result.ModelUsage : \A f \in IntFields :
        /\ result.ModelUsage[m][f] = SumField(result.DailyUsage, m, f)
        /\ result.ModelUsage[m][f] = SumField(result.ProjectUsage, m, f)

\* A returned result in which one model has buckets under two dates and
\* under two projects.
C3_Witness ==
    /\ pc = "done"
    /\ \E m \in DOMAIN result.ModelUsage :
        /\ Cardinality(KeysWith(result.DailyUsage, m)) >= 2
        /\ Cardinality(KeysWith(result.ProjectUsage, m)) >= 2

\* The branch label a record is filed under.
LabelOf(r) == IF r.Branch = "" THEN "(no branch)" ELSE r.Branch

Folded == IF Walked THEN DOMAIN deduped \ pending ELSE {}

\* C5: in the by-model, by-date and by-project views a bucket exists exactly
\* for the keys of the canonical records folded so far, and its Requests
\* counter is the number of those records with its key: one per canonical
\* record, none for an event that dedup replaced.
C5_RequestCounts ==
    /\ DOMAIN result.ModelUsage = {deduped[id].Model : id \in Folded}
    /\ \A m \in DOMAIN result.ModelUsage :
        result.ModelUsage[m].Requests =
            Cardinality({id \in Folded : deduped[id].Model = m})
    /\ DOMAIN result.DailyUsage = {deduped[id].Date : id \in Folded}
    /\ \A d \in DOMAIN result.DailyUsage :
        /\ DOMAIN result.DailyUsage[d] = {deduped[id].Model : id \in {x \in Folded : deduped[x].Date = d}}
        /\ \A m \in DOMAIN result.DailyUsage[d] :
            result.DailyUsage[d][m].Requests =
                Cardinality({id \in Folded : deduped[id].Date = d /\ deduped[id].Model = m})
    /\ DOMAIN result.ProjectUsage = {deduped[id].Project : id \in Folded}
    /\ \A q \in DOMAIN result.ProjectUsage :
        /\ DOMAIN result.ProjectUsage[q] = {deduped[id].Model : id \in {x \in Folded : deduped[x].Project = q}}
        /\ \A m \in DOMAIN result.ProjectUsage[q] :
            result.ProjectUsage[q][m].Requests =
                Cardinality({id \in Folded : deduped[id].Project = q /\ deduped[id].Model = m})

\* A returned result with a bucket of two requests, after a walk that
\* accepted more events than there are canonical records.
C5_Witness ==
    /\ pc = "done"
    /\ Len(accepted) > Cardinality(DOMAIN deduped)
    /\ \E m \in DOMAIN result.ModelUsage : result.ModelUsage[m].Requests = 2

\* The step scans a line.
ScanStep == nLines' = nLines + 1

\* No synthetic record is in the dedup map, in TotalRecords or in a view.
NoSynthetic ==
    /\ \A id \in DOMAIN deduped : deduped[id].Model # Synthetic
    /\ Walked => result.TotalRecords =
            Cardinality({id \in DOMAIN deduped : deduped[id].Model # Synthetic})
    /\ Synthetic \notin DOMAIN result.ModelUsage
    /\ Synthetic \notin ModelsIn(result.DailyUsage)
    /\ Synthetic \notin ModelsIn(result.ProjectUsage)
    /\ \A q \in DOMAIN result.BranchUsage : Synthetic \notin ModelsIn(result.BranchUsage[q])

\* C6: a line whose model id is "<synthetic>" never enters the dedup map,
\* whatever its usage and request id: scanning it leaves the map (and the
\* record already stored under its request id) as it was, and no synthetic
\* record is ever in the map, in TotalRecords or in a view.
C6_SyntheticExcluded ==
    /\ []NoSynthetic
    /\ [][(ScanStep /\ last'.Model = Synthetic) =>
            UNCHANGED <<deduped, accepted, rawCount, parseErrs>>]_vars

\* A synthetic line has just been scanned while the map holds a record
\* under the line's request id.
C6_Witness ==
    /\ pc = "scan"
    /\ last.Model = Synthetic
    /\ last.HasUsage
    /\ last.RequestID \in DOMAIN deduped

\* The line decodes to a record with a usage payload and a billable model.
Billable(l) ==
    /\ ~l.length0
    /\ l.disc \in {"compact", "spaced"}
    /\ l.valid
    /\ l.HasUsage
    /\ l.Model # <<>>
    /\ l.Model # Synthetic

\* The step turns the scanned line into an event.
Accepts == Len(accepted') = Len(accepted) + 1

\* C7: with a cutoff of N > 0 days a billable line with a parseable
\* timestamp is retained iff its instant is not before local midnight of the
\* day N-1 days before today; for instants of today or earlier, iff its local
\* calendar day is today or one of the N-1 days before.  With N = 0 it is
\* always retained.
C7_Cutoff ==
    [][(ScanStep /\ Billable(last') /\ last'.Timestamp.kind = "rfc3339") =>
        LET t == last'.Timestamp.instant
        IN  /\ days = 0 => Accepts
            /\ days > 0 => (Accepts <=> t >= LocalMidnight(Today - (days - 1)))
            /\ (days > 0 /\ LocalDate(t) <= Today) =>
                    (Accepts <=> LocalDate(t) \in (Today - (days - 1))..Today)]_vars

\* Under a cutoff of more than one day, a line stamped exactly at the cutoff
\* instant has just been scanned and retained under the cutoff day's date.
C7_Witness ==
    /\ pc = "scan"
    /\ days > 1
    /\ Billable(last)
    /\ last.Timestamp = TsAt(LocalMidnight(Today - (days - 1)))
    /\ accepted # <<>>
    /\ accepted[Len(accepted)].rec.Date = FormatDate(Today - (days - 1))

\* C8: under an active cutoff every event whose timestamp is missing or
\* fails to parse is dropped: no canonical record and no by-date key has the
\* date "unknown".
C8_UnverifiedDropped ==
    days > 0 =>
        /\ \A id \in DOMAIN deduped : deduped[id].Date # "unknown"
        /\ "unknown" \notin DOMAIN result.DailyUsage

\* C9: without a cutoff a billable line whose timestamp is empty or fails to
\* parse is retained with the date "unknown": the failed parse adds exactly
\* one parse error, the empty timestamp none; and every record dated
\* "unknown" is in the by-model, by-date and by-project views of the result.
C9_UnknownDate ==
    /\ [](pc = "done" =>
            \A id \in DOMAIN deduped :
                LET r == deduped[id]
                IN  r.Date = "unknown" =>
                        /\ r.Model \in DOMAIN result.ModelUsage
                        /\ result.ModelUsage[r.Model].Requests >= 1
                        /\ r.Project \in DOMAIN result.ProjectUsage
                        /\ r.Model \in DOMAIN result.ProjectUsage[r.Project]
                        /\ "unknown" \in DOMAIN result.DailyUsage
                        /\ r.Model \in DOMAIN result.DailyUsage["unknown"])
    /\ [][(ScanStep /\ days = 0 /\ Billable(last') /\ last'.Timestamp.kind # "rfc3339") =>
            /\ Accepts
            /\ accepted'[Len(accepted')].rec.Date = "unknown"
            /\ deduped'[accepted'[Len(accepted')].id].Date = "unknown"
            /\ parseErrs' = parseErrs + (IF last'.Timestamp.kind = "invalid" THEN 1 ELSE 0)]_vars

\* A run without cutoff that scanned a single line, kept it under "unknown"
\* and returned one parse error: the line's timestamp did not parse.
C9_Witness ==
    /\ pc = "done"
    /\ days = 0
    /\ nLines = 1
    /\ result.ParseErrors = 1
    /\ result.TotalRecords = 1
    /\ "unknown" \in DOMAIN result.DailyUsage

\* C10: a line that passes the prefilter and is not JSON adds exactly one
\* parse error and no record, and the scan of the file goes on; a run that
\* has scanned a line never ends in the error return.
C10_MalformedLine ==
    /\ [](nLines > 0 => pc # "failed")
    /\ [][(ScanStep /\ ~last'.length0 /\ last'.disc \in {"compact", "spaced"} /\ ~last'.valid) =>
            /\ parseErrs' = parseErrs + 1
            /\ UNCHANGED <<deduped, accepted, rawCount, file, parseErrors>>
            /\ pc' = "scan"]_vars

\* In one file a malformed line was counted and the line after it was
\* scanned and accepted.
C10_Witness ==
    /\ pc = "scan"
    /\ nLines = 2
    /\ parseErrs = 1
    /\ rawCount = 1
    /\ Billable(last)
    /\ Len(accepted) = 1

\* Nothing has been walked, deduplicated, aggregated or reported.
Untouched ==
    /\ dir = 0
    /\ file = NoFile
    /\ nLines = 0
    /\ totalFiles = 0
    /\ warnings = 0
    /\ deduped = EmptyMap
    /\ accepted = <<>>
    /\ result = NoResult
    /\ pending = {}

\* C11: when <baseDir>/projects is missing or is not a directory, parseLogs
\* returns the error and no result, and it does so before any file is
\* walked, any record deduplicated or any bucket created; a run over a
\* directory never takes the error return.
C11_NoProjectsDir ==
    /\ (root # "dir" /\ pc # "start") => (pc = "failed" /\ Untouched)
    /\ pc = "failed" => (root # "dir" /\ Untouched)
    /\ pc = "start" => Untouched

\* parseLogs has returned the error: projects is a regular file.
C11_Witness ==
    /\ pc = "failed"
    /\ root = "file"

FamiliesOf(m) ==
    {k \in 1..Len(familyPrefixesDeclared) : HasPrefix(m, familyPrefixesDeclared[k].Prefix)}

\* The rate cards registered under key.
CardsOf(key) == {pricingTable[k].Price : k \in {j \in 1..Len(pricingTable) : pricingTable[j].Key = key}}

\* C13: resolvePricing returns the card registered under exactly the model
\* identifier if there is one; otherwise the card of the longest family
\* prefix that starts the identifier; otherwise the sonnet-4-6 card, input 3
\* and output 15.  An unregistered "claude-opus-4-5-..." gets the opus-4-5
\* card (5 / 25), not the card of the shorter prefix "claude-opus-4" (15 / 75).
C13_ResolvePricing ==
    call.op = "resolvePricing" =>
        LET m == call.model
            fam == FamiliesOf(m)
        IN  /\ IF CardsOf(m) # {} THEN CardsOf(m) = {call.ret}
               ELSE IF fam # {}
               THEN \E k \in fam :
                        /\ \A j \in fam : Len(familyPrefixesDeclared[j].Prefix)
                                              <= Len(familyPrefixesDeclared[k].Prefix)
                        /\ CardsOf(familyPrefixesDeclared[k].Key) = {call.ret}
               ELSE call.ret = [Input |-> 3000, Output |-> 15000]
            /\ m = Opus45 \o Dated2026 => call.ret = [Input |-> 5000, Output |-> 25000]

\* resolvePricing has answered for an unregistered opus-4-5 identifier, which
\* two family prefixes of different lengths and different cards start.
C13_Witness ==
    /\ call.op = "resolvePricing"
    /\ call.model = Opus45 \o Dated2026
    /\ CardsOf(call.model) = {}
    /\ Cardinality({familyPrefixesDeclared[k].Key : k \in FamiliesOf(call.model)}) = 2
    /\ call.ret = [Input |-> 5000, Output |-> 25000]

\* C14: calcCost(model, usage) is input * Input + output * Output
\* + cache5m * 1.25 * Input + cache1h * 2.0 * Input + cacheRead * 0.1 * Input
\* per million tokens, Input and Output being the rates of
\* resolvePricing(model) and (cache5m, cache1h) the resolved cache-write
\* tiers.  On the 5 / 25 card input plus output of equal size cost 30.00 per
\* million, cache read plus 5-minute cache write 6.75, and 5-minute plus
\* 1-hour cache writes 16.25.  Units: 1e-9 dollars, rates in milli-dollars.
C14_CalcCost ==
    call.op = "calcCost" =>
        LET u == call.usage
            p == resolvePricing(call.model)
            cw == CacheWriteTokens(u)
        IN  /\ (cw[1] * p.Input * 5) % 4 = 0
            /\ (u.CacheReadInputTokens * p.Input) % 10 = 0
            /\ call.ret = u.InputTokens * p.Input
                            + u.OutputTokens * p.Output
                            + (cw[1] * p.Input * 5) \div 4
                            + cw[2] * p.Input * 2
                            + (u.CacheReadInputTokens * p.Input) \div 10
            /\ call.model = Opus46 =>
                /\ u = MkUsage(Ktok, Ktok, 0, 0, NoCacheCreation) => call.ret = 30000 * Ktok
                /\ u = MkUsage(0, 0, Ktok, Ktok, NoCacheCreation) => call.ret = 6750 * Ktok
                /\ u = MkUsage(0, 0, 0, 2 * Ktok, Breakdown(Ktok, Ktok)) =>
                        call.ret = 16250 * Ktok

\* calcCost has priced 5-minute and 1-hour cache writes of equal size on
\* the 5 / 25 card.
C14_Witness ==
    /\ call.op = "calcCost"
    /\ call.model = Opus46
    /\ call.usage = MkUsage(0, 0, 0, 2 * Ktok, Breakdown(Ktok, Ktok))
    /\ call.ret = 16250 * Ktok

\* C15: CacheWriteTokens returns the breakdown's two tiers when the
\* breakdown is present and not all zero, whatever the flat total; otherwise
\* the flat total as the 5-minute amount and 0 as the 1-hour amount.  The
\* 1-hour amount is therefore 0 or the breakdown's, never taken from the
\* flat total.
C15_CacheWriteTokens ==
    call.op = "CacheWriteTokens" =>
        LET u == call.usage
            cc == u.CacheCreation
        IN  /\ IF cc.present /\ (cc.Ephemeral5mInputTokens # 0 \/ cc.Ephemeral1hInputTokens # 0)
               THEN call.ret = <<cc.Ephemeral5mInputTokens, cc.Ephemeral1hInputTokens>>
               ELSE call.ret = <<u.CacheCreationInputTokens, 0>>
            /\ call.ret[2] = (IF cc.present THEN cc.Ephemeral1hInputTokens ELSE 0)

\* CacheWriteTokens has answered for a payload whose breakdown is present
\* and all zero beside a flat total: the flat total is the 5-minute amount.
C15_Witness ==
    /\ call.op = "CacheWriteTokens"
    /\ call.usage.CacheCreation = Breakdown(0, 0)
    /\ call.usage.CacheCreationInputTokens = 2 * Ktok
    /\ call.ret = <<2 * Ktok, 0>>

\* Field f summed over the buckets of the by-model view.
ModelSum(f) ==
    SumOver(DOMAIN result.ModelUsage, [m \in DOMAIN result.ModelUsage |-> result.ModelUsage[m][f]])

\* C16: Totals() returns, for input, output, cache read, both cache-write
\* tiers, requests and cost, the sum of the field over the buckets of the
\* by-model view and of no other view; the total cache write is the sum of
\* the two tiers' totals; and no step of Totals() changes the result.
C16_Totals ==
    /\ [](call.op = "Totals" /\ call.returned =>
            /\ call.t.Input = ModelSum("InputTokens")
            /\ call.t.Output = ModelSum("OutputTokens")
            /\ call.t.CacheR = ModelSum("CacheRead")
            /\ call.t.CacheW5m = ModelSum("CacheWrite5m")
            /\ call.t.CacheW1h = ModelSum("CacheWrite1h")
            /\ call.t.Requests = ModelSum("Requests")
            /\ call.t.Cost = ModelSum("Cost")
            /\ call.t.CacheW = call.t.CacheW5m + call.t.CacheW1h)
    /\ [][call'.op = "Totals" => result' = result]_vars

\* Totals() has returned the totals of TestTotals: two buckets, a by-date
\* view that holds other numbers.
C16_Witness ==
    /\ call.op = "Totals"
    /\ call.returned
    /\ DOMAIN result.ModelUsage = {Opus46, Haiku45Dated}
    /\ result.DailyUsage # EmptyMap
    /\ call.t.Input = 1800
    /\ call.t.CacheW = 250
    /\ call.t.Requests = 5
    /\ call.t.Cost = 2000000000

\* The keys of the by-date view that are dates.
Dated == DOMAIN result.DailyUsage \ {"unknown"}

\* The place of a date in the calendar.
DayOf(date) == CHOOSE i \in 1..Len(Calendar) : Calendar[i] = date

\* C17: DateRange() returns the least and the greatest of the by-date keys
\* other than "unknown", in string order and, for these dates, in calendar
\* order; both are empty exactly when there is no such key; otherwise both
\* are keys and from <= to.  This holds in whatever order the keys are
\* scanned.
C17_DateRange ==
    (call.op = "DateRange" /\ call.todo = {}) =>
        /\ (call.from = "" /\ call.to = "") <=> Dated = {}
        /\ Dated # {} =>
            /\ call.from \in Dated
            /\ call.to \in Dated
            /\ call.from = call.to \/ StrLess(call.from, call.to)
            /\ \A d \in Dated :
                /\ ~StrLess(d, call.from)
                /\ ~StrLess(call.to, d)
                /\ DayOf(call.from) <= DayOf(d)
                /\ DayOf(d) <= DayOf(call.to)

\* DateRange() has returned for a view with "unknown" and three dates of two
\* months.
C17_Witness ==
    /\ call.op = "DateRange"
    /\ call.todo = {}
    /\ DOMAIN result.DailyUsage = TestDates
    /\ call.from = Calendar[1]
    /\ call.to = Calendar[4]

\* The project identifier holds the filter, letter case aside.
Matches(slug) == Contains(ToLower(slug), ToLower(projectFilter))

\* C18: with a non-empty project filter no file of a project whose
\* identifier (the first path segment under projects/) lacks the filter is
\* processed: every canonical record's project and every key of the
\* by-project view holds the filter, letter case aside.
C18_FilterExcludes ==
    projectFilter # <<>> =>
        /\ file # NoFile => Matches(file.project)
        /\ \A id \in DOMAIN deduped : Matches(deduped[id].Project)
        /\ \A q \in DOMAIN result.ProjectUsage : Matches(q)

\* The placeholder identifiers parseFile can synthesize in a walk.
Placeholders ==
    {RequestIdOf([RequestID |-> ""], FileNames[n], raw) :
        n \in 1..Len(FileNames), raw \in 1..MaxLines}

\* The accepted events that carried no request identifier.
Anonymous == {i \in 1..Len(accepted) : accepted[i].id \in Placeholders}

\* C19: the placeholder of an accepted event without request identifier is
\* unique in the run: no two such events, of one file or of two, share an
\* identifier, so each has its own canonical record; and no line's own
\* request identifier is a placeholder.
C19_PlaceholderUnique ==
    /\ \A i, j \in Anonymous : i # j => accepted[i].id # accepted[j].id
    /\ Cardinality(DOMAIN deduped \cap Placeholders) = Cardinality(Anonymous)
    /\ last.RequestID # "" => last.RequestID \notin Placeholders

\* The cost of canonical record r.
CostOf(r) == calcCost(r.Model, r.Usage)

\* The session's map holds, for each accepted identifier, the event
\* processed last.
Pooled ==
    /\ DOMAIN deduped = Ids(accepted)
    /\ \A id \in DOMAIN deduped : deduped[id] = LastOf(accepted, id)

\* C20: parseSession pools the accepted events of the transcript and then
\* those of every .jsonl file directly inside its subagents directory into
\* one map without date cutoff: the transcript is scanned first, only
\* regular .jsonl entries are scanned after it, every billable line is
\* accepted whatever its timestamp, an identifier seen in both leaves one
\* record (the one processed last), and sessionCost of the returned map is
\* the sum of calcCost over its canonical records, each counted once.
C20_SessionPool ==
    /\ [](pc \in {"scan", "readdir", "entries", "done"} => Pooled)
    /\ [](pc = "scan" =>
            IF dir = 0 THEN file.base = Transcript
            ELSE \E n \in 1..Len(SubagentEntries) :
                    /\ file.base = SubagentEntries[n].name
                    /\ SubagentEntries[n].isLog
                    /\ ~SubagentEntries[n].isDir)
    /\ [][dir = 1 => dir' = 1]_vars
    /\ [][(ScanStep /\ Billable(last')) => Accepts]_vars
    /\ []((call.op = "sessionCost" /\ call.todo = {}) =>
            call.total = SumOver(Ids(accepted),
                [id \in Ids(accepted) |-> CostOf(LastOf(accepted, id))]))

\* sessionCost has returned for a session whose transcript and first
\* subagent file each hold one event of the same request under different
\* models: one record, the subagent's, and its cost alone.
C20_Witness ==
    /\ call.op = "sessionCost"
    /\ call.todo = {}
    /\ warnings = 0
    /\ lastName = 1
    /\ rawCount = 1
    /\ Len(accepted) = 2
    /\ accepted[1].id = accepted[2].id
    /\ accepted[1].rec.Model # accepted[2].rec.Model
    /\ Cardinality(DOMAIN deduped) = 1
    /\ call.total = CostOf(accepted[2].rec)
    /\ call.total # CostOf(accepted[1].rec)

\* The map that last-write-wins makes of history h.
MapOf(h) == [id \in Ids(h) |-> LastOf(h, id)]

\* The accepted events without those of the file being scanned (rawCount
\* counts the events the open file has yielded).
BeforeFile ==
    SubSeq(accepted, 1, Len(accepted) - (IF pc = "scan" THEN rawCount ELSE 0))

\* The step reports a file that could not be read.
Warns == warnings' = warnings + 1

\* C21: the error outcomes of parseSession.  A transcript that cannot be
\* read yields an error and no record set; a missing subagents directory
\* yields the transcript's deduplicated set and no error; a subagent file
\* that cannot be read is reported, the session goes on and succeeds, and
\* the map is that of the transcript and of the other subagent files, with
\* nothing of the unreadable file in it.
C21_SessionErrors ==
    /\ [](pc = "failed" => (deduped = EmptyMap /\ call = NoCall))
    /\ [][(pc = "readdir" /\ pc' = "done") =>
            (deduped' = MapOf(accepted) /\ UNCHANGED <<warnings, accepted>>)]_vars
    /\ [][(pc = "entries" \/ dir = 1) => pc' # "failed"]_vars
    /\ [][Warns => (pc' = "entries" /\ deduped' = MapOf(BeforeFile))]_vars

\* The result of folding the records ids of the map into res in one fixed
\* order.
RECURSIVE FoldAll64(_, _)
FoldAll64(res, ids) ==
    IF ids = {} THEN res
    ELSE LET id == CHOOSE x \in ids : TRUE
         IN  FoldAll64(FoldRecord64(res, deduped[id]), ids \ {id})

\* C22: the result of parseLogs is a function of the tree it read: the
\* canonical records are the last-write-wins map of the accepted events, the
\* counters are those of the walk, and every bucket of every view, its cost
\* included, is what folding the canonical records in one fixed order
\* gives, whatever order the run folded them in.
C22_Deterministic ==
    pc = "done" =>
        /\ deduped = MapOf(accepted)
        /\ result.TotalFiles = totalFiles
        /\ result.ParseErrors = parseErrors
        /\ result.TotalRecords = Cardinality(DOMAIN deduped)
        /\ result =
              FoldAll64([NoResult EXCEPT !.TotalFiles = totalFiles,
                                         !.TotalRecords = Cardinality(DOMAIN deduped),
                                         !.ParseErrors = parseErrors],
                        DOMAIN deduped)

\* The line decodes to a record that is no billable assistant record: its
\* own type is not "assistant", or it has no usage payload or no model id.
NotAssistantUsage(l) ==
    /\ l.valid
    /\ (l.Type # "assistant" \/ ~l.HasUsage \/ l.Model = <<>>)

\* C23: a line whose top-level type is not "assistant" yields no event,
\* even when it carries a model id and a usage payload and holds the
\* assistant-type text somewhere else; nor does a line without usage
\* payload or with an empty model id; scanning such a line leaves the dedup
\* map, the accepted events and both counters of the file as they were.
C23_NonAssistantSkipped ==
    [][(ScanStep /\ NotAssistantUsage(last')) =>
        UNCHANGED <<deduped, accepted, rawCount, parseErrs>>]_vars

\* No view holds a bucket.
NoBuckets ==
    /\ result.ModelUsage = EmptyMap
    /\ result.DailyUsage = EmptyMap
    /\ result.ProjectUsage = EmptyMap
    /\ result.BranchUsage = EmptyMap

\* C24: no bucket exists or changes before the walk has ended.  While
\* parseLogs is before or in the walk, and when it has failed, every view is
\* empty; a step that writes the dedup map leaves the views empty; and once
\* the fold has started the dedup map is never written again.
C24_AggregateAfterDedup ==
    /\ [](pc \in {"start", "walk", "scan", "failed"} => NoBuckets)
    /\ [][(deduped' # deduped \/ accepted' # accepted) => (NoBuckets /\ NoBuckets')]_vars
    /\ [][(pc = "agg" \/ pc = "done") => UNCHANGED <<deduped, accepted, totalFiles, parseErrors>>]_vars

\* The fold is under way over a map that took several writes: a bucket
\* exists and a canonical record is still to be folded.
C24_Witness ==
    /\ pc = "agg"
    /\ pending # {}
    /\ ~NoBuckets
    /\ Len(accepted) > Cardinality(DOMAIN deduped)

\* The open file is one the mtime test passes over.
SkippedByMtime ==
    /\ pc = "scan"
    /\ SkipsFile(days > 0, TRUE, file.modTime, Cutoff(days))

\* C25: the mtime test only saves work.  With the test taken out, a file
\* last modified before the cutoff is counted and scanned, but under the
\* append-only precondition none of its lines becomes an event: the dedup
\* map and the accepted events, and with them all views, are what they are
\* when the file is passed over.
C25_MtimeSkipIsOptimization ==
    [][(SkippedByMtime /\ ScanStep) => UNCHANGED <<deduped, accepted>>]_vars

\* C26: a line longer than the maximum is never cut short and parsed.  The
\* step that meets such a line, whatever record it holds, stores nothing
\* and counts nothing: parseFile returns a file error, parseLogs warns once
\* for the file and goes on with the walk, which never fails for it.
C26_LineTooLong ==
    /\ [][(ScanStep /\ last'.size > maxTokenSize) =>
            /\ Warns
            /\ pc' = "walk"
            /\ file' = NoFile
            /\ UNCHANGED <<deduped, accepted, parseErrors, totalFiles>>]_vars
    /\ [][(pc = "scan") => pc' # "failed"]_vars

\* A walk is over in which the last line met was a billable record longer
\* than the maximum, in the second file, after a record of the first file
\* had been stored.
C26_Witness ==
    /\ pc = "done"
    /\ "size" \in DOMAIN last
    /\ last.size > maxTokenSize
    /\ Billable(last)
    /\ warnings = 1
    /\ result.TotalFiles = 2
    /\ result.TotalRecords = 1
    /\ last.RequestID \notin DOMAIN deduped

\* C27: a file for which parseFile returns an error is skipped as a whole.
\* At the step that reports the file the dedup map is the map as it was
\* before the file was opened, with no record of the file in it and no
\* earlier record overwritten by one, and ParseErrors is not increased.
C27_FailedFileSkipped ==
    [][Warns => (deduped' = MapOf(BeforeFile) /\ parseErrors' = parseErrors)]_vars

\* The ParseResult of a walk that folds the records of ids out of map m into
\* res, one after the other.
RECURSIVE FoldAll(_, _, _)
FoldAll(res, m, ids) ==
    IF ids = {} THEN res
    ELSE LET id == CHOOSE x \in ids : TRUE
             r == m[id]
         IN  FoldAll([res EXCEPT !.ModelUsage = FoldModel(@, r),
                                 !.DailyUsage = FoldNested(@, r.Date, r),
                                 !.ProjectUsage = FoldNested(@, r.Project, r),
                                 !.BranchUsage = FoldBranch(@, r)],
                     m, ids \ {id})

\* What parseLogs returns when it runs alone and reads the lines of history h
\* in nFiles files with nErrors malformed lines.
AloneLogs(h, nFiles, nErrors) ==
    FoldAll([NoResult EXCEPT !.TotalFiles = nFiles,
                             !.TotalRecords = Cardinality(Ids(h)),
                             !.ParseErrors = nErrors],
            MapOf(h), Ids(h))

\* C28: parseLogs and parseSession running at once over files that do not
\* change do not interfere.  Each has its own dedup map, which at every
\* moment holds exactly what its own invocation stored; no step of one
\* changes a variable of the other; and in every interleaving parseLogs
\* returns what it returns alone on the lines it read, and parseSession the
\* map of the lines it read (nil when it fails).
C28_NoInterference ==
    /\ [](deduped = MapOf(accepted))
    /\ [](call.deduped = IF call.pc = "failed" THEN EmptyMap ELSE MapOf(call.accepted))
    /\ [][(call' # call) => UNCHANGED <<walkVars, result>>]_vars
    /\ [][(<<walkVars, result>>' # <<walkVars, result>>) => (call' = call)]_vars
    /\ [](pc = "done" => result = AloneLogs(accepted, totalFiles, parseErrors))

\* Both invocations are in the middle of a file at once, each with records
\* already stored: the walk in its second file, the session in a subagent log.
C28_Witness ==
    /\ pc = "scan"
    /\ Len(accepted) = 2
    /\ rawCount = 1
    /\ call.pc = "scan"
    /\ call.dir = 1
    /\ call.rawCount = 1
    /\ Cardinality(DOMAIN call.deduped) = 2
    /\ DOMAIN deduped \cap DOMAIN call.deduped = {}

\* table is ordered by non-increasing prefix length.
LongestFirst(table) ==
    \A i, j \in 1..Len(table) : i < j => Len(table[i].Prefix) >= Len(table[j].Prefix)

\* C29: when init() has run the family-prefix table is ordered by
\* non-increasing prefix length, whatever order sort.Slice left entries of
\* equal length in, and it holds the declared entries; no lookup happens
\* before that; every lookup returns what it returns on the table with the
\* declared order among equal lengths, so the result does not depend on the
\* order of ties; and the key of every entry is a key of the rate table.
C29_PrefixTableOrder ==
    /\ [](pc = "calls" =>
            /\ LongestFirst(call.table)
            /\ Len(call.table) = Len(familyPrefixesDeclared)
            /\ {call.table[k] : k \in 1..Len(call.table)} = DeclaredEntries)
    /\ [](call.op = "resolvePricing" =>
            /\ pc = "calls"
            /\ call.ret = resolvePricingIn(familyPrefixes, call.model))
    /\ [](\A k \in 1..Len(call.table) : HasPrice(call.table[k].Key))

\* A lookup of a dated opus-4-5 identifier that is no key of the rate table,
\* on a table whose entries of length fifteen are not in the declared order
\* (the sonnet-3 prefix comes first of all of them): the opus-4-5 card.
C29_Witness ==
    /\ call.op = "resolvePricing"
    /\ call.table # familyPrefixes
    /\ call.table[5].Prefix = Sonnet3
    /\ call.model = Opus45 \o Dated2026
    /\ ~HasPrice(call.model)
    /\ call.ret = Rate(5000, 25000)

\* r.Totals(): the buckets of the by-model view added up, CacheW last.
RECURSIVE TotalsOver(_, _, _)
TotalsOver(t, view, todo) ==
    IF todo = {} THEN [t EXCEPT !.CacheW = t.CacheW5m + t.CacheW1h]
    ELSE LET m == CHOOSE x \in todo : TRUE
         IN  TotalsOver(AddBucket(t, view[m]), view, todo \ {m})

Totals(r) == TotalsOver(ZeroTotals, r.ModelUsage, DOMAIN r.ModelUsage)

====
